---- MODULE Spec2Model ----
(***************************************************************************)
(* LocalExecutionBackend (src/agent/backend_local_exec.py): one backend    *)
(* instance, the host process environment it reads, and the life of one    *)
(* execute() call at a time: the shell child started by subprocess.run,    *)
(* the processes that child starts, the bytes they write to the captured   *)
(* pipes, the timeout deadline, and the ExecuteResponse handed back.       *)
(*                                                                         *)
(* Text is a sequence of one-character strings, so that lengths, slices    *)
(* and concatenations are computed as Python computes them.                *)
(***************************************************************************)
EXTENDS Integers, Sequences, FiniteSets, TLC

(***************************************************************************)
(* Bounds of the model.                                                    *)
(***************************************************************************)
\* Most bytes the processes of one command write to stdout and stderr together.
MaxOutput == 3
\* max_output_chars is drawn from 0..MaxChars.
MaxChars == 3
\* Most processes the shell child has started that are alive at once.
MaxDescendants == 1
\* Most data rows of a CSV file.
MaxRows == 3
\* The values of a CSV's amount column are drawn from 0..MaxValue.
MaxValue == 2
\* --top is drawn from 0..MaxTop.
MaxTop == 3

(***************************************************************************)
(* Input sets.                                                             *)
(***************************************************************************)
\* Bytes a process may write: a letter, the two line-end bytes, and a byte
\* that is not valid UTF-8.
InvalidByte == "xFF"
Bytes == {"a", "\n", "\r", InvalidByte}
\* Exit statuses the shell child may end with.
ExitStatuses == {0, 1, 2, 124}
\* default_timeout: 120 is the configured value, 1 the short one of the tests.
Timeouts == {1, 120}
\* Names of environment variables.
EnvNames == {"PATH", "HOME", "SECRET"}
\* Values the host environment gives a variable.
HostValues == {"host"}
\* Values an env_allowlist mapping carries.
AllowValues == {"allow"}

\* All mappings from a subset of the names to the values.
Mappings(names, values) == UNION {[S -> values] : S \in SUBSET names}

(***************************************************************************)
(* Literals of the source.                                                 *)
(***************************************************************************)
\* "\n... [truncated] ...\n"
TRUNC_MARKER ==
    << "\n", ".", ".", ".", " ", "[", "t", "r", "u", "n", "c", "a", "t", "e",
       "d", "]", " ", ".", ".", ".", "\n" >>
\* "Command timed out after "
TimeoutPrefix ==
    << "C", "o", "m", "m", "a", "n", "d", " ", "t", "i", "m", "e", "d", " ",
       "o", "u", "t", " ", "a", "f", "t", "e", "r", " " >>
\* "Error executing command: "
ErrorPrefix ==
    << "E", "r", "r", "o", "r", " ", "e", "x", "e", "c", "u", "t", "i", "n",
       "g", " ", "c", "o", "m", "m", "a", "n", "d", ":", " " >>
\* str(e) of the OSError Popen raises when the child cannot be started.
OSErrorText ==
    << "[", "E", "r", "r", "n", "o", " ", "2", "]", " ", "N", "o", " ", "s",
       "u", "c", "h", " ", "f", "i", "l", "e", " ", "o", "r", " ", "d", "i",
       "r", "e", "c", "t", "o", "r", "y", ":", " ", "'", "/", "w", "o", "r",
       "k", "s", "p", "a", "c", "e", "'" >>
\* str(e) of the TypeError iterating an int raises.
NotIterableText ==
    << "'", "i", "n", "t", "'", " ", "o", "b", "j", "e", "c", "t", " ",
       "i", "s", " ", "n", "o", "t", " ", "i", "t", "e", "r", "a", "b",
       "l", "e" >>
\* The message of the container backend when its container is down.
ContainerNotRunningText ==
    << "E", "r", "r", "o", "r", ":", " ", "c", "o", "n", "t", "a", "i",
       "n", "e", "r", " ", "'", "c", "o", "d", "e", "-", "e", "x", "e",
       "c", "u", "t", "i", "o", "n", "-", "a", "g", "e", "n", "t", "'",
       " ", "i", "s", " ", "n", "o", "t", " ", "r", "u", "n", "n", "i",
       "n", "g", " ", "o", "r", " ", "n", "o", "t", " ", "r", "e", "a",
       "c", "h", "a", "b", "l", "e" >>
\* str(e) of the UnicodeDecodeError, up to the position and after it.
DecodeErrorHead ==
    << "'", "u", "t", "f", "-", "8", "'", " ", "c", "o", "d", "e", "c", " ",
       "c", "a", "n", "'", "t", " ", "d", "e", "c", "o", "d", "e", " ", "b",
       "y", "t", "e", " ", "0", "x", "f", "f", " ", "i", "n", " ", "p", "o",
       "s", "i", "t", "i", "o", "n", " " >>
DecodeErrorTail ==
    << ":", " ", "i", "n", "v", "a", "l", "i", "d", " ", "s", "t", "a", "r",
       "t", " ", "b", "y", "t", "e" >>

(***************************************************************************)
(* Python's text operations.                                               *)
(***************************************************************************)
DigitChars == << "0", "1", "2", "3", "4", "5", "6", "7", "8", "9" >>

\* str(n) of a non-negative integer, as the f-strings format it.
RECURSIVE DecStr(_)
DecStr(n) ==
    IF n < 10 THEN << DigitChars[n + 1] >>
    ELSE DecStr(n \div 10) \o << DigitChars[(n % 10) + 1] >>

\* A slice bound i of a sequence of length n, as Python normalises it.
PyBound(i, n) ==
    IF i < 0 THEN (IF n + i < 0 THEN 0 ELSE n + i)
    ELSE (IF i > n THEN n ELSE i)

\* s[lo:hi] of Python (0-based, hi excluded).
PySlice(s, lo, hi) ==
    SubSeq(s, PyBound(lo, Len(s)) + 1, PyBound(hi, Len(s)))

\* s[:k]
PySliceTo(s, k) == PySlice(s, 0, k)

\* s[-k:], which Python evaluates as s[0:] when k = 0.
PySliceLast(s, k) == PySlice(s, 0 - k, Len(s))

\* Whether the bytes decode as UTF-8.
Decodable(bs) == \A i \in 1..Len(bs) : bs[i] # InvalidByte

\* Position (0-based) of the first byte that does not decode.
FirstInvalid(bs) ==
    (CHOOSE i \in 1..Len(bs) :
        /\ bs[i] = InvalidByte
        /\ \A j \in 1..(i - 1) : bs[j] # InvalidByte) - 1

\* Universal newlines of text mode: "\r\n" and "\r" both become "\n".
RECURSIVE TranslateNewlines(_)
TranslateNewlines(s) ==
    IF s = <<>> THEN <<>>
    ELSE IF s[1] = "\r"
         THEN IF Len(s) >= 2 /\ s[2] = "\n"
              THEN << "\n" >> \o TranslateNewlines(SubSeq(s, 3, Len(s)))
              ELSE << "\n" >> \o TranslateNewlines(Tail(s))
         ELSE << s[1] >> \o TranslateNewlines(Tail(s))

\* The text subprocess.run(text=True) hands back for decodable bytes.
Decode(bs) == TranslateNewlines(bs)

\* str(e) of the UnicodeDecodeError the streams raise; stdout is decoded first.
DecodeErrorText(out, err) ==
    LET bad == IF Decodable(out) THEN err ELSE out
    IN  DecodeErrorHead \o DecStr(FirstInvalid(bad)) \o DecodeErrorTail

(***************************************************************************)
(* Paths.  An input path is text; a host path is the sequence of its       *)
(* components below the host's "/".                                        *)
(***************************************************************************)
\* str.startswith
StartsWith(s, prefix) ==
    Len(prefix) <= Len(s) /\ SubSeq(s, 1, Len(prefix)) = prefix

\* sub in s
Contains(s, sub) ==
    \E i \in 1..(Len(s) - Len(sub) + 1) : SubSeq(s, i, i + Len(sub) - 1) = sub

\* The components of a path: the non-empty runs between "/" characters.
RECURSIVE SplitFrom(_, _)
SplitFrom(s, cur) ==
    IF s = <<>>
    THEN IF cur = <<>> THEN <<>> ELSE << cur >>
    ELSE IF s[1] = "/"
         THEN (IF cur = <<>> THEN <<>> ELSE << cur >>) \o SplitFrom(Tail(s), <<>>)
         ELSE SplitFrom(Tail(s), Append(cur, s[1]))

Components(s) == SplitFrom(s, <<>>)

\* What the host makes of "." and ".." components ("/.." is "/").
RECURSIVE Normalise(_, _)
Normalise(done, rest) ==
    IF rest = <<>> THEN done
    ELSE IF rest[1] = << "." >> THEN Normalise(done, Tail(rest))
    ELSE IF rest[1] = << ".", "." >>
         THEN Normalise(IF done = <<>> THEN <<>>
                        ELSE SubSeq(done, 1, Len(done) - 1),
                        Tail(rest))
    ELSE Normalise(Append(done, rest[1]), Tail(rest))

\* The host path is the directory itself or lies below it.
Within(dir, host) == StartsWith(host, dir)

(***************************************************************************)
(* The backends and the composite router the agent is built with.          *)
(***************************************************************************)
\* "/skills/", the prefix the skills backend is mounted under.
SKILLS_PREFIX == << "/", "s", "k", "i", "l", "l", "s", "/" >>
\* "/skills/x/", a prefix below it, for tables with nested prefixes.
NESTED_PREFIX == SKILLS_PREFIX \o << "x", "/" >>
Prefixes == {SKILLS_PREFIX, NESTED_PREFIX}

\* workspace: the LocalExecutionBackend; skills: the FilesystemBackend of the
\* skills directory; docs: one more FilesystemBackend, for a second route.
Backends == {"workspace", "skills", "docs"}

\* root_dir of each backend, as a host path.
RootDir ==
    [b \in Backends |->
        CASE b = "workspace" -> << << "W" >> >>
          [] b = "skills" -> << << "S" >> >>
          [] OTHER -> << << "D" >> >>]

\* virtual_mode of each backend: passed as True for the skills backend, not
\* passed by LocalExecutionBackend.__init__, which leaves the default, False.
VirtualMode == [b \in Backends |-> b # "workspace"]

\* The backend has an execute method (SandboxBackendProtocol).
Executes == [b \in Backends |-> b = "workspace"]

\* Faulty variant of ExecuteOutcome: without the capability the call hands
\* back success and does nothing.
ExecuteOutcome_SilentNoOp(b) == IF Executes[b] THEN "started" ELSE "ok"

\* What execute(command) on a backend comes to: the call is started, or the
\* "execution unsupported" error is handed back.
ExecuteOutcome(b) == IF Executes[b] THEN "started" ELSE "unsupported"

\* CompositeBackend(default=..., routes={...})
CompositeBackend(default, routes) == [default |-> default, routes |-> routes]

\* The router create_agent builds.
ConfiguredComposite ==
    CompositeBackend("workspace", [p \in {SKILLS_PREFIX} |-> "skills"])

\* Every routing table over the prefixes, with a default that executes or not.
Composites ==
    {CompositeBackend(d, r) :
        d \in {"workspace", "docs"},
        r \in UNION {[P -> {"skills", "docs"}] : P \in SUBSET Prefixes}}

\* The registered prefixes that are literal prefixes of the path.
MatchingPrefixes(comp, path) ==
    {p \in DOMAIN comp.routes : StartsWith(path, p)}

\* Faulty variant of Route: the shortest matching prefix wins.
Route_ShortestPrefix(comp, path) ==
    LET matching == MatchingPrefixes(comp, path)
        p == CHOOSE q \in matching : \A r \in matching : Len(q) <= Len(r)
    IN  IF matching = {}
        THEN [backend |-> comp.default, prefix |-> <<>>, path |-> path]
        ELSE [backend |-> comp.routes[p], prefix |-> p,
              path |-> << "/" >> \o SubSeq(path, Len(p) + 1, Len(path))]

\* Faulty variant of Route: the path is forwarded with its prefix.
Route_KeepPrefix(comp, path) ==
    LET matching == MatchingPrefixes(comp, path)
        p == CHOOSE q \in matching : \A r \in matching : Len(r) <= Len(q)
    IN  IF matching = {}
        THEN [backend |-> comp.default, prefix |-> <<>>, path |-> path]
        ELSE [backend |-> comp.routes[p], prefix |-> p, path |-> path]

\* Faulty variant of Route: the prefix is removed and no "/" is put back.
Route_NoLeadingSlash(comp, path) ==
    LET matching == MatchingPrefixes(comp, path)
        p == CHOOSE q \in matching : \A r \in matching : Len(r) <= Len(q)
    IN  IF matching = {}
        THEN [backend |-> comp.default, prefix |-> <<>>, path |-> path]
        ELSE [backend |-> comp.routes[p], prefix |-> p,
              path |-> SubSeq(path, Len(p) + 1, Len(path))]

\* The router's dispatch of a path-carrying operation: the backend of the
\* longest matching prefix with the prefix removed and "/" put back, or the
\* default backend with the path unchanged.
Route(comp, path) ==
    LET matching == MatchingPrefixes(comp, path)
        p == CHOOSE q \in matching : \A r \in matching : Len(r) <= Len(q)
    IN  IF matching = {}
        THEN [backend |-> comp.default, prefix |-> <<>>, path |-> path]
        ELSE [backend |-> comp.routes[p], prefix |-> p,
              path |-> << "/" >> \o SubSeq(path, Len(p) + 1, Len(path))]

\* Faulty variant of RouteExecute: a command that mentions a routed prefix
\* goes to the backend of that prefix.
RouteExecute_ByMention(comp, command) ==
    LET mentioned == {p \in DOMAIN comp.routes : Contains(command, p)}
    IN  IF mentioned = {} THEN comp.default
        ELSE comp.routes[CHOOSE p \in mentioned :
                                  \A q \in mentioned : Len(q) <= Len(p)]

\* The router's dispatch of execute: the default backend, whatever the command.
RouteExecute(comp, command) == comp.default

\* The host path an input path denotes for a backend.  With virtual_mode the
\* path is taken below the root; without it an absolute path is the host's
\* own and a relative one starts at the root.
HostPath(b, key) ==
    IF VirtualMode[b] \/ ~StartsWith(key, << "/" >>)
    THEN Normalise(<<>>, RootDir[b] \o Components(key))
    ELSE Normalise(<<>>, Components(key))

\* FilesystemBackend._resolve_path: with virtual_mode a path that holds ".."
\* or comes out outside the root is refused; without it nothing is refused.
_resolve_path(b, key) ==
    LET vpath == IF StartsWith(key, << "/" >>) THEN key ELSE << "/" >> \o key
        host == HostPath(b, key)
    IN  IF /\ VirtualMode[b]
           /\ Contains(vpath, << ".", "." >>) \/ ~Within(RootDir[b], host)
        THEN [ok |-> FALSE, host |-> <<>>]
        ELSE [ok |-> TRUE, host |-> host]

(***************************************************************************)
(* The file operations of a backend, on the files of the host.             *)
(***************************************************************************)
\* What a file operation hands back, and the files it leaves.
FileResult(status, content, entries, fs) ==
    [status |-> status, content |-> content, entries |-> entries, fs |-> fs]

\* read(path)
BackendRead(b, key, fs) ==
    LET r == _resolve_path(b, key)
    IN  IF ~r.ok THEN FileResult("rejected", <<>>, {}, fs)
        ELSE IF r.host \notin DOMAIN fs THEN FileResult("not_found", <<>>, {}, fs)
        ELSE FileResult("ok", fs[r.host], {}, fs)

\* ls(path): the names directly below the directory.
BackendLs(b, key, fs) ==
    LET r == _resolve_path(b, key)
    IN  IF ~r.ok THEN FileResult("rejected", <<>>, {}, fs)
        ELSE FileResult("ok", <<>>,
                        {h[Len(r.host) + 1] :
                            h \in {g \in DOMAIN fs :
                                      Within(r.host, g) /\ Len(g) > Len(r.host)}},
                        fs)

\* write(path, content): the file's full content is set.
BackendWrite(b, key, content, fs) ==
    LET r == _resolve_path(b, key)
    IN  IF ~r.ok THEN FileResult("rejected", <<>>, {}, fs)
        ELSE FileResult("ok", <<>>, {},
                        [h \in (DOMAIN fs) \cup {r.host} |->
                            IF h = r.host THEN content ELSE fs[h]])

\* str.replace for one-character find and replacement.
ReplaceChar(text, find, replacement) ==
    [i \in 1..Len(text) |-> IF text[i] = find THEN replacement ELSE text[i]]

\* edit(path, find, replace)
BackendEdit(b, key, find, replacement, fs) ==
    LET r == _resolve_path(b, key)
    IN  IF ~r.ok THEN FileResult("rejected", <<>>, {}, fs)
        ELSE IF r.host \notin DOMAIN fs THEN FileResult("not_found", <<>>, {}, fs)
        ELSE IF ~Contains(fs[r.host], << find >>)
             THEN FileResult("no_match", <<>>, {}, fs)
        ELSE FileResult("ok", <<>>, {},
                        [fs EXCEPT ![r.host] = ReplaceChar(fs[r.host], find, replacement)])

(***************************************************************************)
(* Inputs of the file operations.                                          *)
(***************************************************************************)
\* Input paths: below a routed prefix, beside one, relative, and with "..".
Paths ==
    { << "/" >>,
      << "/", "a" >>,
      << "a" >>,
      << "/", "s", "k", "i", "l", "l", "s" >>,
      << "/", "s", "k", "i", "l", "l", "s", "a" >>,
      SKILLS_PREFIX,
      SKILLS_PREFIX \o << "a" >>,
      NESTED_PREFIX \o << "a" >>,
      << "/", ".", ".", "/", "a" >>,
      << ".", ".", "/", "a" >>,
      SKILLS_PREFIX \o << ".", ".", "/", "a" >> }

\* File contents.
Contents == {<< "x", "a" >>, << "y", "a" >>}
\* Characters an edit finds and puts in.
EditChars == {"x", "y"}

\* Command strings: "ls", and "ls /skills/".
Commands == {<< "l", "s" >>, << "l", "s", " " >> \o SKILLS_PREFIX}

\* The virtual path v corresponds to the path key of backend b: v is key for
\* the default backend, or key behind a prefix registered for b, and no
\* other registered prefix takes v elsewhere.
Corresponds(comp, v, b, key) ==
    LET matching == MatchingPrefixes(comp, v)
    IN  \/ b = comp.default /\ v = key /\ matching = {}
        \/ \E p \in matching :
              /\ comp.routes[p] = b
              /\ StartsWith(key, << "/" >>)
              /\ v = p \o Tail(key)
              /\ \A q \in matching : Len(q) <= Len(p)

(***************************************************************************)
(* The backend instance and the host.                                      *)
(***************************************************************************)
VARIABLES
    default_timeout,   \* self.default_timeout
    max_output_chars,  \* self.max_output_chars
    env_allowlist,     \* self.env_allowlist, a mapping name -> value
    cwd,               \* self.cwd, the host path of root_dir
    os_environ,        \* os.environ of the host process
    pc,                \* where the execute() call is: "idle", "running" (inside
                       \* subprocess.run), "ret_normal", "ret_timeout",
                       \* "ret_error" (the three return statements), "raised"
    proc_env,          \* env= handed to subprocess.run by the call
    shell,             \* the shell child: "none", "running", "exited", "killed"
    returncode,        \* the shell child's exit status once it has ended
    descendants,       \* live processes the shell child started; they
                       \* inherit the captured pipes
    out_bytes,         \* bytes written to the stdout pipe
    err_bytes,         \* bytes written to the stderr pipe
    deadline,          \* the timeout elapsed before communicate() finished
    exc,               \* the exception raised inside the try block, or "None"
    response,          \* the ExecuteResponse returned (when pc is "ret_*")
    composite,         \* the CompositeBackend: default backend and routes
    hostfs,            \* the files of the host: host path -> content
    fop,               \* the last call of a file operation or of execute
                       \* made on a backend or through the router
    wrote,             \* the last write made on a backend itself
    csv_file,          \* the file at csv_path of a filter_high_value.py run
    args,              \* its parsed arguments
    script_pc,         \* where main() is: "idle", "start", "try", "loaded",
                       \* "checked", "exited"
    script_exc,        \* the exception raised in its try block and the
                       \* except clause that took it
    sys_stdout,        \* the values it printed to stdout
    sys_stderr,        \* the messages it printed to stderr
    exit_status,       \* the interpreter's exit status once it has exited
    ctor,              \* what the constructor was given: whether root_dir
                       \* exists, whether env_allowlist can be iterated
    container,         \* the named container: "running", "stopped",
                       \* "unreachable"
    tid,               \* the caller thread whose execute() call the call
                       \* variables above show
    other,             \* the execute() call of the other caller thread
    hist,              \* the calls made so far: how many, the environment
                       \* handed to the one before, os.environ as the last
                       \* one found it
    pdf_file,          \* the file at pdf_path of an extract_forms.py run
    tavily,            \* what a search_news.py run finds: the API key, the
                       \* Tavily client and the output file's directory
    repl               \* interactive_loop: where the loop is, the input it
                       \* read last, whether the agent was invoked for it

exec_vars == << default_timeout, max_output_chars, env_allowlist, cwd,
                os_environ, pc, proc_env, shell, returncode, descendants, out_bytes, err_bytes,
                deadline, exc, response >>

file_vars == << composite, hostfs, fop, wrote >>
script_vars == << csv_file, args, script_pc, script_exc, sys_stdout, sys_stderr,
                 exit_status >>
setup_vars == << ctor, container >>
\* What the steps of an execute() call leave alone.
\* The second caller thread, the history of calls, the other two scripts and
\* the interactive loop.
ext_vars == << tid, other, hist, pdf_file, tavily, repl >>
aux_vars == << file_vars, script_vars, setup_vars, ext_vars >>
vars == << exec_vars, file_vars, script_vars, setup_vars, ext_vars >>

config_vars == << default_timeout, max_output_chars, env_allowlist, cwd >>
proc_vars == << shell, returncode, descendants, out_bytes, err_bytes >>

\* The response slot before any return statement has run.
NoResponse == [output |-> <<>>, exit_code |-> 0, truncated |-> FALSE]

ExecuteResponse(output, exit_code, truncated) ==
    [output |-> output, exit_code |-> exit_code, truncated |-> truncated]

\* The constructor's env_allowlist argument: None, or a mapping.
AllowlistArgs(names) ==
    {[is_none |-> TRUE, dict |-> <<>>]}
        \cup {[is_none |-> FALSE, dict |-> d] : d \in Mappings(names, AllowValues)}

\* env_allowlist or {}
AllowlistOrEmpty(arg) == IF arg.is_none THEN <<>> ELSE arg.dict

\* Faulty variant of _build_env: the environment built for the first call
\* is kept and handed to every later call.
_build_env_Cached(allowlist, environ) ==
    IF hist.calls > 0 THEN proc_env
    ELSE LET env == [key \in (DOMAIN allowlist) \cap (DOMAIN environ) |->
                        environ[key]]
         IN  IF "PATH" \notin DOMAIN env /\ "PATH" \in DOMAIN environ
             THEN [key \in (DOMAIN env) \cup {"PATH"} |->
                      IF key = "PATH" THEN environ["PATH"] ELSE env[key]]
             ELSE env

\* Faulty variant of _build_env: an allowlisted variable gets the value the
\* allowlist stores for it.
_build_env_AllowlistValues(allowlist, environ) ==
    LET env == [key \in (DOMAIN allowlist) \cap (DOMAIN environ) |-> allowlist[key]]
    IN  IF "PATH" \notin DOMAIN env /\ "PATH" \in DOMAIN environ
        THEN [key \in (DOMAIN env) \cup {"PATH"} |->
                 IF key = "PATH" THEN environ["PATH"] ELSE env[key]]
        ELSE env

\* Faulty variant of _build_env: PATH is not force-included.
_build_env_NoPath(allowlist, environ) ==
    [key \in (DOMAIN allowlist) \cap (DOMAIN environ) |-> environ[key]]

\* LocalExecutionBackend._build_env
_build_env(allowlist, environ) ==
    LET env == [key \in (DOMAIN allowlist) \cap (DOMAIN environ) |-> environ[key]]
    IN  IF "PATH" \notin DOMAIN env /\ "PATH" \in DOMAIN environ
        THEN [key \in (DOMAIN env) \cup {"PATH"} |->
                 IF key = "PATH" THEN environ["PATH"] ELSE env[key]]
        ELSE env

\* Faulty variant of CombineOutput: the newline is added even when stdout is empty.
CombineOutput_AlwaysNewline(stdout, stderr) ==
    IF stderr # <<>> THEN stdout \o << "\n" >> \o stderr ELSE stdout

\* output = proc.stdout or ""; if proc.stderr: output += ("\n" if output else "") + proc.stderr
CombineOutput(stdout, stderr) ==
    LET output == stdout
    IN  IF stderr # <<>>
        THEN output \o (IF output # <<>> THEN << "\n" >> ELSE <<>>) \o stderr
        ELSE output

\* truncated = len(output) > self.max_output_chars
IsTruncated(output, max) == Len(output) > max

\* Faulty variant of TruncateOutput: the head takes the rounded-up half.
TruncateOutput_CeilHead(output, max) ==
    LET half == max \div 2
        head == PySliceTo(output, max - half)
        tail == PySliceLast(output, half)
    IN  head \o TRUNC_MARKER \o tail

\* The truncation of an over-long output: head + marker + tail.
TruncateOutput(output, max) ==
    LET half == max \div 2
        head == PySliceTo(output, half)
        tail == PySliceLast(output, half)
    IN  head \o TRUNC_MARKER \o tail

\* The return statement of the try block.
NormalResponse(stdout, stderr, rc, max) ==
    LET output == CombineOutput(stdout, stderr)
        truncated == IsTruncated(output, max)
    IN  ExecuteResponse(
            IF truncated THEN TruncateOutput(output, max) ELSE output,
            rc, truncated)

\* Faulty variant of TimeoutResponse: the killed child's status is reported.
TimeoutResponse_KilledStatus(timeout) ==
    [output |-> TimeoutPrefix \o DecStr(timeout) \o << "s" >>,
     exit_code |-> 0 - 9, truncated |-> FALSE]

\* except subprocess.TimeoutExpired
TimeoutResponse(timeout) ==
    ExecuteResponse(TimeoutPrefix \o DecStr(timeout) \o << "s" >>, 124, FALSE)

\* except Exception as e
ErrorResponse(text) ==
    ExecuteResponse(ErrorPrefix \o text, 1, FALSE)

\* Exceptions that can be raised inside the try block.
ExceptionKinds ==
    {"OSError", "UnicodeDecodeError", "TimeoutExpired", "KeyboardInterrupt",
     "TypeError"}

\* isinstance(e, Exception): KeyboardInterrupt and SystemExit derive from
\* BaseException only.
IsException(e) == e \notin {"KeyboardInterrupt", "SystemExit"}

\* Faulty variant of ExceptClauses: a timeout runs the command once more.
ExceptClauses_Retry(e, text, timeout) ==
    IF e = "TimeoutExpired" THEN << "running", NoResponse >>
    ELSE IF IsException(e) THEN << "ret_error", ErrorResponse(text) >>
    ELSE << "raised", NoResponse >>

\* Faulty variant of ExceptClauses: "except Exception" comes first, so it
\* also takes TimeoutExpired.
ExceptClauses_ExceptionFirst(e, text, timeout) ==
    IF IsException(e) THEN << "ret_error", ErrorResponse(text) >>
    ELSE << "raised", NoResponse >>

\* Faulty variant of ExceptClauses: only OSError is caught besides the timeout.
ExceptClauses_OnlyOSError(e, text, timeout) ==
    IF e = "TimeoutExpired" THEN << "ret_timeout", TimeoutResponse(timeout) >>
    ELSE IF e = "OSError" THEN << "ret_error", ErrorResponse(text) >>
    ELSE << "raised", NoResponse >>

\* The except clauses, in order: where exception e with str(e) = text leaves
\* the call, as << pc, response >>.
ExceptClauses(e, text, timeout) ==
    IF e = "TimeoutExpired" THEN << "ret_timeout", TimeoutResponse(timeout) >>
    ELSE IF IsException(e) THEN << "ret_error", ErrorResponse(text) >>
    ELSE << "raised", NoResponse >>

\* subprocess.run's own handlers kill the child before the exception leaves it.
KillShell ==
    /\ shell' = IF shell = "running" THEN "killed" ELSE shell
    /\ returncode' = IF shell = "running" THEN 0 - 9 ELSE returncode

\* Exception e leaves the try block.
Raise(e, text) ==
    LET handled == ExceptClauses(e, text, default_timeout)
    IN  /\ exc' = e
        /\ pc' = handled[1]
        /\ response' = handled[2]

\* No process of the command can write any more. communicate() returns once
\* the shell child has ended and the pipes are at end of file.
PipesClosed == shell # "running" /\ descendants = 0

(***************************************************************************)
(* filter_high_value.py (src/skills/csv-analytics/scripts): one run of     *)
(* main() on a CSV file.                                                   *)
(***************************************************************************)
\* Column names: two numeric columns, a text column, and a name no CSV has.
COL_ID == << "i", "d" >>
COL_AMOUNT == << "a", "m", "o", "u", "n", "t" >>
COL_NAME == << "n", "a", "m", "e" >>
COL_NONE == << "n", "o", "p", "e" >>
Columns == {COL_ID, COL_AMOUNT, COL_NAME}
NumericColumns == {COL_ID, COL_AMOUNT}
\* df.columns, in the order of the header.
ColumnOrder == << COL_ID, COL_AMOUNT, COL_NAME >>

\* The rows of a CSV whose amount column holds the given values; id counts
\* the rows and name is text.
RowsOf(amounts) ==
    [i \in 1..Len(amounts) |->
        [c \in Columns |->
            IF c = COL_ID THEN i
            ELSE IF c = COL_AMOUNT THEN amounts[i]
            ELSE "text"]]

\* All sequences over a set of length at most n.
SeqsUpTo(S, n) == UNION {[1..k -> S] : k \in 0..n}

\* The CSV files: no file, a file without a header line, a file with header
\* and rows.
CsvFiles ==
    {[exists |-> FALSE, header |-> FALSE, rows |-> <<>>],
     [exists |-> TRUE, header |-> FALSE, rows |-> <<>>]}
        \cup {[exists |-> TRUE, header |-> TRUE, rows |-> RowsOf(a)] :
                 a \in SeqsUpTo(0..MaxValue, MaxRows)}

\* "Error: File not found: "
FileNotFoundText ==
    << "E", "r", "r", "o", "r", ":", " ", "F", "i", "l", "e", " ", "n", "o",
       "t", " ", "f", "o", "u", "n", "d", ":", " " >>
\* "Error: Column '"
ColumnNotFoundHead ==
    << "E", "r", "r", "o", "r", ":", " ", "C", "o", "l", "u", "m", "n", " ",
       "'" >>
\* "' not found. Available columns: "
ColumnNotFoundTail ==
    << "'", " ", "n", "o", "t", " ", "f", "o", "u", "n", "d", ".", " ", "A",
       "v", "a", "i", "l", "a", "b", "l", "e", " ", "c", "o", "l", "u", "m",
       "n", "s", ":", " " >>
\* "Error: CSV file is empty: "
EmptyCsvText ==
    << "E", "r", "r", "o", "r", ":", " ", "C", "S", "V", " ", "f", "i", "l",
       "e", " ", "i", "s", " ", "e", "m", "p", "t", "y", ":", " " >>
\* "Error processing CSV: "
ProcessingErrorText ==
    << "E", "r", "r", "o", "r", " ", "p", "r", "o", "c", "e", "s", "s", "i",
       "n", "g", " ", "C", "S", "V", ":", " " >>
\* str(e) of the TypeError the comparison of a text column raises.
TypeErrorText ==
    << "'", ">", "=", "'", " ", "n", "o", "t", " ", "s", "u", "p", "p",
       "o", "r", "t", "e", "d", " ", "b", "e", "t", "w", "e", "e", "n",
       " ", "i", "n", "s", "t", "a", "n", "c", "e", "s", " ", "o", "f",
       " ", "'", "s", "t", "r", "'", " ", "a", "n", "d", " ", "'", "f",
       "l", "o", "a", "t", "'" >>
\* The csv_path argument of every run.
CSV_PATH == << "o", ".", "c", "s", "v" >>

\* ', '.join(names)
RECURSIVE JoinNames(_)
JoinNames(names) ==
    IF names = <<>> THEN <<>>
    ELSE IF Len(names) = 1 THEN names[1]
    ELSE names[1] \o << ",", " " >> \o JoinNames(Tail(names))

\* df[df[column] >= threshold]
FilterRows(rows, column, threshold) ==
    LET Keep(r) == r[column] >= threshold
    IN  SelectSeq(rows, Keep)

\* The position of the first row holding the largest value of the column.
FirstLargest(rows, column) ==
    CHOOSE i \in 1..Len(rows) :
        /\ \A j \in 1..Len(rows) : rows[j][column] <= rows[i][column]
        /\ \A j \in 1..(i - 1) : rows[j][column] < rows[i][column]

\* The sequence without its i-th element.
RemoveAt(s, i) == SubSeq(s, 1, i - 1) \o SubSeq(s, i + 1, Len(s))

\* Faulty variant of NLargest: the first n rows, in file order.
RECURSIVE NLargest_FileOrder(_, _, _)
NLargest_FileOrder(rows, n, column) ==
    IF n <= 0 \/ rows = <<>> THEN <<>>
    ELSE << rows[1] >> \o NLargest_FileOrder(Tail(rows), n - 1, column)

\* DataFrame.nlargest(n, column): the n rows with the largest values, largest
\* first, rows of equal value in file order.
RECURSIVE NLargest(_, _, _)
NLargest(rows, n, column) ==
    IF n <= 0 \/ rows = <<>> THEN <<>>
    ELSE LET i == FirstLargest(rows, column)
         IN  << rows[i] >> \o NLargest(RemoveAt(rows, i), n - 1, column)

\* Faulty variant of ScriptHandler: the generic clause catches everything.
ScriptHandler_CatchAll(e) ==
    IF e = "EmptyDataError" THEN "empty" ELSE "generic"

\* Which except clause of main() takes an exception raised in the try block:
\* except pd.errors.EmptyDataError, then except Exception; SystemExit is
\* taken by neither.
ScriptHandler(e) ==
    IF e = "EmptyDataError" THEN "empty"
    ELSE IF IsException(e) THEN "generic"
    ELSE "none"

(***************************************************************************)
(* The file layer and the script before any call or run.                   *)
(***************************************************************************)
NoFop ==
    [op |-> "none", via |-> "none", path |-> <<>>, arg |-> <<>>,
     backend |-> "none", prefix |-> <<>>, fwd |-> <<>>, status |-> "none",
     content |-> <<>>, entries |-> {}]

NoWrite ==
    [valid |-> FALSE, backend |-> "none", key |-> <<>>, content |-> <<>>,
     host |-> <<>>]

FilesIdle ==
    /\ composite = ConfiguredComposite
    /\ hostfs = <<>>
    /\ fop = NoFop
    /\ wrote = NoWrite

ScriptIdle ==
    /\ csv_file = [exists |-> FALSE, header |-> FALSE, rows |-> <<>>]
    /\ args = [column_name |-> COL_AMOUNT, threshold |-> 0, top |-> 0]
    /\ script_pc = "idle"
    /\ script_exc = [kind |-> "None", handler |-> "none"]
    /\ sys_stdout = <<>>
    /\ sys_stderr = <<>>
    /\ exit_status = 0

\* Constructor arguments: root_dir names a directory or not; env_allowlist
\* is None or a mapping, or a value that cannot be iterated (an int).
CtorArgs == [root_dir_exists : BOOLEAN, allowlist_iterable : BOOLEAN]
ValidArgs == [root_dir_exists |-> TRUE, allowlist_iterable |-> TRUE]
ContainerStates == {"running", "stopped", "unreachable"}

SetupIdle ==
    /\ ctor = ValidArgs
    /\ container = "running"

\* Faulty variant of ContainerErrorResponse: the generic launch failure.
ContainerErrorResponse_Generic == ErrorResponse(OSErrorText)

\* The response of the container backend when the container is down.
ContainerErrorResponse == ExecuteResponse(ContainerNotRunningText, 1, FALSE)

(***************************************************************************)
(* The second caller thread, the call history, the other scripts and the   *)
(* interactive loop before anything has run.                               *)
(***************************************************************************)
\* The locals of an execute() call that has not started.
IdleCall ==
    [pc |-> "idle", proc_env |-> <<>>, shell |-> "none", returncode |-> 0,
     descendants |-> 0, out_bytes |-> <<>>, err_bytes |-> <<>>,
     deadline |-> FALSE, exc |-> "None", response |-> NoResponse]

NoHist == [calls |-> 0, prev_env |-> <<>>, environ |-> <<>>]
NoPdf ==
    [exists |-> FALSE, reader |-> "none", text_fields |-> <<>>,
     opened |-> FALSE]
NoTavily ==
    [api_key |-> << "None" >>, client |-> "none", search |-> "none",
     response |-> <<>>, writable |-> FALSE, saved |-> <<>>]
NoLoop ==
    [pc |-> "off", event |-> "none", line |-> <<>>, user_input |-> <<>>,
     invoked |-> FALSE, prompts |-> 0]

ExtIdle ==
    /\ tid = 1
    /\ other = IdleCall
    /\ hist = NoHist
    /\ pdf_file = NoPdf
    /\ tavily = NoTavily
    /\ repl = NoLoop

(***************************************************************************)
(* Initial states: a constructed backend and a host environment.           *)
(***************************************************************************)
InitCall ==
    /\ pc = "idle"
    /\ proc_env = <<>>
    /\ shell = "none"
    /\ returncode = 0
    /\ descendants = 0
    /\ out_bytes = <<>>
    /\ err_bytes = <<>>
    /\ deadline = FALSE
    /\ exc = "None"
    /\ response = NoResponse

\* LocalExecutionBackend.__init__
Construct(timeout, max, allow_arg) ==
    /\ default_timeout = timeout
    /\ max_output_chars = max
    /\ env_allowlist = AllowlistOrEmpty(allow_arg)
    /\ cwd = RootDir["workspace"]

\* The host environment of the output-side specification: every name set.
FullEnviron == [n \in EnvNames |-> CHOOSE v \in HostValues : TRUE]

Init ==
    /\ \E timeout \in Timeouts, max \in 0..MaxChars, arg \in AllowlistArgs({}) :
          Construct(timeout, max, arg)
    /\ os_environ = FullEnviron
    /\ InitCall
    /\ ExtIdle
    /\ FilesIdle
    /\ ScriptIdle
    /\ SetupIdle

\* The environment-side specification: every allowlist argument and every
\* host environment over EnvNames, with the configured timeout.
InitEnv ==
    /\ \E arg \in AllowlistArgs(EnvNames) : Construct(120, MaxChars, arg)
    /\ os_environ \in Mappings(EnvNames, HostValues)
    /\ InitCall
    /\ ExtIdle
    /\ FilesIdle
    /\ ScriptIdle
    /\ SetupIdle

(***************************************************************************)
(* The steps of execute().                                                 *)
(***************************************************************************)
\* Faulty variant of StartCall: _build_env fills self.env_allowlist itself
\* instead of a fresh dict, so the host's values and PATH are stored in it.
StartCall_AliasedEnv(launched) ==
    /\ pc # "running"
    /\ ctor.root_dir_exists \/ ~launched
    /\ descendants' = 0
    /\ out_bytes' = <<>>
    /\ err_bytes' = <<>>
    /\ deadline' = FALSE
    /\ returncode' = 0
    /\ IF ~ctor.allowlist_iterable
       THEN /\ proc_env' = <<>>
            /\ shell' = "none"
            /\ env_allowlist' = env_allowlist
            /\ Raise("TypeError", NotIterableText)
       ELSE /\ proc_env' = _build_env(env_allowlist, os_environ)
            /\ env_allowlist' =
                  [n \in (DOMAIN env_allowlist) \cup (DOMAIN proc_env') |->
                      IF n \in DOMAIN proc_env' THEN proc_env'[n]
                      ELSE env_allowlist[n]]
            /\ IF launched
               THEN /\ shell' = "running"
                    /\ pc' = "running"
                    /\ exc' = "None"
                    /\ response' = NoResponse
               ELSE /\ shell' = "none"
                    /\ Raise("OSError", OSErrorText)
    /\ UNCHANGED << default_timeout, max_output_chars, cwd, os_environ >>

\* execute() enters the try block: _build_env(), which raises TypeError for an
\* allowlist that cannot be iterated, then Popen starts the shell child, or
\* raises OSError when it cannot be started (always so when root_dir does not
\* exist).
StartCall(launched) ==
    /\ pc # "running"
    /\ ctor.root_dir_exists \/ ~launched
    /\ descendants' = 0
    /\ out_bytes' = <<>>
    /\ err_bytes' = <<>>
    /\ deadline' = FALSE
    /\ returncode' = 0
    /\ IF ~ctor.allowlist_iterable
       THEN /\ proc_env' = <<>>
            /\ shell' = "none"
            /\ Raise("TypeError", NotIterableText)
       ELSE /\ proc_env' = _build_env(env_allowlist, os_environ)
            /\ IF launched
               THEN /\ shell' = "running"
                    /\ pc' = "running"
                    /\ exc' = "None"
                    /\ response' = NoResponse
               ELSE /\ shell' = "none"
                    /\ Raise("OSError", OSErrorText)
    /\ UNCHANGED << config_vars, os_environ >>

\* execute() called on the LocalExecutionBackend.
ExecuteStart(launched) ==
    /\ StartCall(launched)
    /\ UNCHANGED aux_vars

\* A process of the command writes one byte to a captured pipe.
ChildWrite(stream, b) ==
    /\ pc = "running"
    /\ shell = "running" \/ descendants > 0
    /\ Len(out_bytes) + Len(err_bytes) < MaxOutput
    /\ IF stream = "stdout"
       THEN out_bytes' = Append(out_bytes, b) /\ UNCHANGED err_bytes
       ELSE err_bytes' = Append(err_bytes, b) /\ UNCHANGED out_bytes
    /\ UNCHANGED << aux_vars, config_vars, os_environ, pc, proc_env, shell, returncode,
                    descendants, deadline, exc, response >>

\* The shell child starts a process of its own (a pipeline stage, a
\* background job), which inherits the pipes.
ChildSpawn ==
    /\ pc = "running"
    /\ shell = "running"
    /\ descendants < MaxDescendants
    /\ descendants' = descendants + 1
    /\ UNCHANGED << aux_vars, config_vars, os_environ, pc, proc_env, shell, returncode,
                    out_bytes, err_bytes, deadline, exc, response >>

\* A process the shell child started ends by itself.
DescendantExit ==
    /\ descendants > 0
    /\ descendants' = descendants - 1
    /\ UNCHANGED << aux_vars, config_vars, os_environ, pc, proc_env, shell, returncode,
                    out_bytes, err_bytes, deadline, exc, response >>

\* The shell child ends by itself with an exit status.
ChildExit(status) ==
    /\ pc = "running"
    /\ shell = "running"
    /\ shell' = "exited"
    /\ returncode' = status
    /\ UNCHANGED << aux_vars, config_vars, os_environ, pc, proc_env, descendants,
                    out_bytes, err_bytes, deadline, exc, response >>

\* timeout=self.default_timeout elapses while communicate() is still waiting.
DeadlineElapses ==
    /\ pc = "running"
    /\ ~deadline
    /\ ~PipesClosed
    /\ deadline' = TRUE
    /\ UNCHANGED << aux_vars, config_vars, os_environ, pc, proc_env, proc_vars, exc,
                    response >>

\* communicate() finishes in time: decode both streams, then the rest of the
\* try block; a stream that does not decode raises UnicodeDecodeError.
ExecuteComplete ==
    /\ pc = "running"
    /\ PipesClosed
    /\ ~deadline
    /\ IF Decodable(out_bytes) /\ Decodable(err_bytes)
       THEN /\ pc' = "ret_normal"
            /\ exc' = "None"
            /\ response' = NormalResponse(Decode(out_bytes), Decode(err_bytes),
                                          returncode, max_output_chars)
       ELSE Raise("UnicodeDecodeError", DecodeErrorText(out_bytes, err_bytes))
    /\ UNCHANGED << aux_vars, config_vars, os_environ, proc_env, proc_vars, deadline >>

\* Faulty variant of ExecuteTimeout: after the kill the streams are read to
\* their end (communicate() again), which waits for every process that holds
\* the pipes.
ExecuteTimeout_Communicate ==
    /\ pc = "running"
    /\ deadline
    /\ descendants = 0
    /\ KillShell
    /\ Raise("TimeoutExpired", <<>>)
    /\ UNCHANGED << aux_vars, config_vars, os_environ, proc_env, descendants, out_bytes,
                    err_bytes, deadline >>

\* communicate() raises TimeoutExpired: subprocess.run kills the shell child
\* (that process only), waits for it, and re-raises.
ExecuteTimeout ==
    /\ pc = "running"
    /\ deadline
    /\ KillShell
    /\ Raise("TimeoutExpired", <<>>)
    /\ UNCHANGED << aux_vars, config_vars, os_environ, proc_env, descendants, out_bytes,
                    err_bytes, deadline >>

\* SIGINT reaches the caller while communicate() is waiting: KeyboardInterrupt.
Interrupt ==
    /\ pc = "running"
    /\ ~deadline
    /\ KillShell
    /\ Raise("KeyboardInterrupt", <<>>)
    /\ UNCHANGED << aux_vars, config_vars, os_environ, proc_env, descendants, out_bytes,
                    err_bytes, deadline >>

Next ==
    \/ \E launched \in BOOLEAN : ExecuteStart(launched)
    \/ \E stream \in {"stdout", "stderr"}, b \in Bytes : ChildWrite(stream, b)
    \/ ChildSpawn
    \/ DescendantExit
    \/ \E status \in ExitStatuses : ChildExit(status)
    \/ DeadlineElapses
    \/ ExecuteComplete
    \/ ExecuteTimeout
    \/ Interrupt

Spec == Init /\ [][Next]_vars

\* Commands that print nothing and start no process of their own, under
\* every allowlist and host environment.
NextEnv ==
    \/ \E launched \in BOOLEAN : ExecuteStart(launched)
    \/ \E status \in ExitStatuses : ChildExit(status)
    \/ DeadlineElapses
    \/ ExecuteComplete
    \/ ExecuteTimeout
    \/ Interrupt

SpecEnv == InitEnv /\ [][NextEnv]_vars

(***************************************************************************)
(* Calls of the file operations and of execute, on a backend itself or     *)
(* through the composite router.                                           *)
(***************************************************************************)
\* Who is called: the router, or a backend itself.
Callers == {"router"} \cup Backends
Via(caller) == IF caller = "router" THEN "router" ELSE "direct"

\* Where a call lands: the router's dispatch, or the backend itself.
Target(caller, path) ==
    IF caller = "router" THEN Route(composite, path)
    ELSE [backend |-> caller, prefix |-> <<>>, path |-> path]

\* The record of a call that has returned.
Returns(op, via, path, arg, t, res) ==
    fop' = [op |-> op, via |-> via, path |-> path, arg |-> arg,
            backend |-> t.backend, prefix |-> t.prefix, fwd |-> t.path,
            status |-> res.status,
            content |-> res.content, entries |-> res.entries]

\* The last write made on a backend itself stays on record until another
\* write or edit changes the same file.
NoteWrite(op, via, arg, t, res) ==
    LET host == _resolve_path(t.backend, t.path).host
    IN  wrote' =
            IF res.status # "ok" THEN wrote
            ELSE IF op = "write" /\ via = "direct"
                 THEN [valid |-> TRUE, backend |-> t.backend, key |-> t.path,
                       content |-> arg, host |-> host]
            ELSE IF wrote.valid /\ host = wrote.host THEN NoWrite
            ELSE wrote

FileRead(caller, path) ==
    LET t == Target(caller, path)
        res == BackendRead(t.backend, t.path, hostfs)
    IN  /\ pc # "running"
        /\ Returns("read", Via(caller), path, <<>>, t, res)
        /\ UNCHANGED << exec_vars, composite, hostfs, wrote,
                        script_vars, setup_vars, ext_vars >>

FileLs(caller, path) ==
    LET t == Target(caller, path)
        res == BackendLs(t.backend, t.path, hostfs)
    IN  /\ pc # "running"
        /\ Returns("ls", Via(caller), path, <<>>, t, res)
        /\ UNCHANGED << exec_vars, composite, hostfs, wrote,
                        script_vars, setup_vars, ext_vars >>

FileWrite(caller, path, content) ==
    LET t == Target(caller, path)
        res == BackendWrite(t.backend, t.path, content, hostfs)
    IN  /\ pc # "running"
        /\ Returns("write", Via(caller), path, content, t, res)
        /\ hostfs' = res.fs
        /\ NoteWrite("write", Via(caller), content, t, res)
        /\ UNCHANGED << exec_vars, composite, script_vars, setup_vars, ext_vars >>

FileEdit(caller, path, find, replacement) ==
    LET t == Target(caller, path)
        res == BackendEdit(t.backend, t.path, find, replacement, hostfs)
    IN  /\ pc # "running"
        /\ Returns("edit", Via(caller), path, << find, replacement >>, t, res)
        /\ hostfs' = res.fs
        /\ NoteWrite("edit", Via(caller), <<>>, t, res)
        /\ UNCHANGED << exec_vars, composite, script_vars, setup_vars, ext_vars >>

\* execute(command): a backend that executes starts the call; one that does
\* not hands back the "execution unsupported" error.
FileExecute(caller, command, launched) ==
    LET target == IF caller = "router" THEN RouteExecute(composite, command)
                  ELSE caller
        t == [backend |-> target, prefix |-> <<>>, path |-> command]
        outcome == ExecuteOutcome(target)
    IN  /\ pc # "running"
        /\ Returns("execute", Via(caller), command, <<>>, t,
                   FileResult(outcome, <<>>, {}, hostfs))
        /\ IF outcome = "started"
           THEN StartCall(launched)
           ELSE UNCHANGED exec_vars
        /\ UNCHANGED << composite, hostfs, wrote, script_vars, setup_vars, ext_vars >>

\* Files the skills directory holds before any call.
SkillFiles == [h \in {RootDir["skills"] \o << << "a" >> >>} |-> << "x", "a" >>]

\* Routing: every table, reads, listings and execute calls; nothing is written.
InitRouter ==
    /\ Construct(120, MaxChars, [is_none |-> TRUE, dict |-> <<>>])
    /\ os_environ = FullEnviron
    /\ InitCall
    /\ ExtIdle
    /\ composite \in Composites
    /\ hostfs = SkillFiles
    /\ fop = NoFop
    /\ wrote = NoWrite
    /\ ScriptIdle
    /\ SetupIdle

NextRouter ==
    \/ \E caller \in Callers, path \in Paths : FileRead(caller, path)
    \/ \E caller \in Callers, path \in Paths : FileLs(caller, path)
    \/ \E caller \in Callers, command \in Commands, launched \in BOOLEAN :
          FileExecute(caller, command, launched)
    \/ ChildExit(0)
    \/ ExecuteComplete

SpecRouter == InitRouter /\ [][NextRouter]_vars

\* Files: the configured router and its two backends, every file operation.
InitFiles ==
    /\ Construct(120, MaxChars, [is_none |-> TRUE, dict |-> <<>>])
    /\ os_environ = FullEnviron
    /\ InitCall
    /\ ExtIdle
    /\ composite = ConfiguredComposite
    /\ hostfs = <<>>
    /\ fop = NoFop
    /\ wrote = NoWrite
    /\ ScriptIdle
    /\ SetupIdle

\* The paths of the file calls: virtual paths for the router, and the
\* backend's own paths for a backend itself.
PathsFor(caller) ==
    IF caller = "router"
    THEN { << "/", "a" >>, SKILLS_PREFIX \o << "a" >>,
           << "/", ".", ".", "/", "a" >>,
           SKILLS_PREFIX \o << ".", ".", "/", "a" >> }
    ELSE { << "/", "a" >>, << "/", ".", ".", "/", "a" >>,
           << ".", ".", "/", "a" >> }

FileCallers == {"router", "workspace", "skills"}

NextFiles ==
    \/ \E caller \in FileCallers : \E path \in PathsFor(caller) :
          FileRead(caller, path)
    \/ \E caller \in FileCallers :
          \E path \in PathsFor(caller) \cup {<< "/" >>} : FileLs(caller, path)
    \/ \E caller \in FileCallers, content \in Contents :
          \E path \in PathsFor(caller) : FileWrite(caller, path, content)
    \/ \E caller \in FileCallers, find \in EditChars :
          \E path \in PathsFor(caller), replacement \in EditChars \ {find} :
             FileEdit(caller, path, find, replacement)

SpecFiles == InitFiles /\ [][NextFiles]_vars

(***************************************************************************)
(* The steps of main() in filter_high_value.py.                            *)
(***************************************************************************)
\* The interpreter ends with the status.
ScriptExit(status) ==
    /\ script_pc' = "exited"
    /\ exit_status' = status

\* An exception is raised inside the try block of main() after the text
\* printed so far: the clause that takes it prints its message and calls
\* sys.exit(1); SystemExit passes both clauses and ends the interpreter with
\* its own status.
RaiseInTry(e, text, printed) ==
    LET handler == ScriptHandler(e)
    IN  /\ script_exc' = [kind |-> e, handler |-> handler]
        /\ sys_stderr' =
              IF handler = "empty" THEN Append(printed, EmptyCsvText \o CSV_PATH)
              ELSE IF handler = "generic"
                   THEN Append(printed, ProcessingErrorText \o text)
              ELSE printed
        /\ ScriptExit(1)

\* if not csv_path.exists(): print(...); sys.exit(1)
CheckFile ==
    /\ script_pc = "start"
    /\ IF ~csv_file.exists
       THEN /\ sys_stderr' = Append(sys_stderr, FileNotFoundText \o CSV_PATH)
            /\ ScriptExit(1)
       ELSE /\ script_pc' = "try"
            /\ UNCHANGED << sys_stderr, exit_status >>
    /\ UNCHANGED << exec_vars, file_vars, setup_vars, ext_vars, csv_file, args, script_exc,
                    sys_stdout >>

\* df = pd.read_csv(csv_path): a file without a header raises EmptyDataError.
ReadCsv ==
    /\ script_pc = "try"
    /\ IF ~csv_file.header
       THEN RaiseInTry("EmptyDataError", <<>>, sys_stderr)
       ELSE /\ script_pc' = "loaded"
            /\ UNCHANGED << script_exc, sys_stderr, exit_status >>
    /\ UNCHANGED << exec_vars, file_vars, setup_vars, ext_vars, csv_file, args, sys_stdout >>

\* if args.column_name not in df.columns: print(...); sys.exit(1)
CheckColumn ==
    /\ script_pc = "loaded"
    /\ IF args.column_name \notin Columns
       THEN RaiseInTry("SystemExit", << "1" >>,
                       Append(sys_stderr,
                              ColumnNotFoundHead \o args.column_name
                                  \o ColumnNotFoundTail \o JoinNames(ColumnOrder)))
       ELSE /\ script_pc' = "checked"
            /\ UNCHANGED << script_exc, sys_stderr, exit_status >>
    /\ UNCHANGED << exec_vars, file_vars, setup_vars, ext_vars, csv_file, args, sys_stdout >>

\* filtered = df[df[col] >= threshold]; top_results = filtered.nlargest(top,
\* col); print(json.dumps(records)).  Comparing a text column with the
\* threshold raises TypeError.
FilterAndPrint ==
    /\ script_pc = "checked"
    /\ IF args.column_name \notin NumericColumns
       THEN /\ RaiseInTry("TypeError", TypeErrorText, sys_stderr)
            /\ UNCHANGED sys_stdout
       ELSE /\ sys_stdout' =
                  Append(sys_stdout,
                         NLargest(FilterRows(csv_file.rows, args.column_name,
                                             args.threshold),
                                  args.top, args.column_name))
            /\ ScriptExit(0)
            /\ UNCHANGED << script_exc, sys_stderr >>
    /\ UNCHANGED << exec_vars, file_vars, setup_vars, ext_vars, csv_file, args >>

\* Every CSV file and every argument list.
InitScript ==
    /\ Construct(120, MaxChars, [is_none |-> TRUE, dict |-> <<>>])
    /\ os_environ = FullEnviron
    /\ InitCall
    /\ ExtIdle
    /\ FilesIdle
    /\ SetupIdle
    /\ csv_file \in CsvFiles
    /\ args \in [column_name : Columns \cup {COL_NONE},
                 threshold : 0..(MaxValue + 1),
                 top : 0..MaxTop]
    /\ script_pc = "start"
    /\ script_exc = [kind |-> "None", handler |-> "none"]
    /\ sys_stdout = <<>>
    /\ sys_stderr = <<>>
    /\ exit_status = 0

NextScript ==
    \/ CheckFile
    \/ ReadCsv
    \/ CheckColumn
    \/ FilterAndPrint

SpecScript == InitScript /\ [][NextScript]_vars

(***************************************************************************)
(* The container backend (DockerExecutionBackend of libs/backends, built   *)
(* in src/agent/config.py): execute with a container that may be down.     *)
(***************************************************************************)
\* execute() called on the container backend: with the container running the
\* command is started through the engine's exec; otherwise the call hands
\* back the "container not running" response.
DockerExecute(launched) ==
    /\ pc # "running"
    /\ IF container = "running"
       THEN StartCall(launched)
       ELSE /\ pc' = "ret_error"
            /\ exc' = "ContainerNotRunning"
            /\ response' = ContainerErrorResponse
            /\ proc_env' = <<>>
            /\ shell' = "none"
            /\ returncode' = 0
            /\ descendants' = 0
            /\ out_bytes' = <<>>
            /\ err_bytes' = <<>>
            /\ deadline' = FALSE
            /\ UNCHANGED << config_vars, os_environ >>
    /\ UNCHANGED aux_vars

\* Between two calls the container is stopped, started, or lost.
ContainerChanges(state) ==
    /\ pc # "running"
    /\ state # container
    /\ container' = state
    /\ UNCHANGED << exec_vars, file_vars, script_vars, ctor, ext_vars >>

InitDocker ==
    /\ \E timeout \in Timeouts, max \in 0..MaxChars :
          Construct(timeout, max, [is_none |-> TRUE, dict |-> <<>>])
    /\ os_environ = FullEnviron
    /\ InitCall
    /\ ExtIdle
    /\ FilesIdle
    /\ ScriptIdle
    /\ ctor = ValidArgs
    /\ container \in ContainerStates

NextDocker ==
    \/ \E launched \in BOOLEAN : DockerExecute(launched)
    \/ \E state \in ContainerStates : ContainerChanges(state)
    \/ \E status \in ExitStatuses : ChildExit(status)
    \/ DeadlineElapses
    \/ ExecuteComplete
    \/ ExecuteTimeout

SpecDocker == InitDocker /\ [][NextDocker]_vars

(***************************************************************************)
(* LocalExecutionBackend built from any constructor arguments.             *)
(***************************************************************************)
InitConfig ==
    /\ \E timeout \in Timeouts, max \in 0..MaxChars :
          Construct(timeout, max, [is_none |-> TRUE, dict |-> <<>>])
    /\ os_environ = FullEnviron
    /\ InitCall
    /\ ExtIdle
    /\ FilesIdle
    /\ ScriptIdle
    /\ ctor \in CtorArgs
    /\ container = "running"

NextConfig ==
    \/ \E launched \in BOOLEAN : ExecuteStart(launched)
    \/ \E status \in ExitStatuses : ChildExit(status)
    \/ DeadlineElapses
    \/ ExecuteComplete
    \/ ExecuteTimeout

SpecConfig == InitConfig /\ [][NextConfig]_vars

(***************************************************************************)
(* extract_forms.py (src/skills/pdf-processing/scripts): one run of main() *)
(* on a PDF file.                                                          *)
(***************************************************************************)
\* Python's None where a text is expected.
None == << "None" >>
\* bool(v) of a text or None.
Truthy(v) == v # None /\ v # <<>>

\* The pdf_path argument of every run.
PDF_PATH == << "f", ".", "p", "d", "f" >>
\* "Error extracting forms: "
ExtractErrorText ==
    << "E", "r", "r", "o", "r", " ", "e", "x", "t", "r", "a", "c", "t", "i",
       "n", "g", " ", "f", "o", "r", "m", "s", ":", " " >>
\* str(e) of the exception PdfReader raises on a file that is no PDF.
NotPdfText ==
    << "S", "t", "r", "e", "a", "m", " ", "h", "a", "s", " ", "e", "n", "d",
       "e", "d", " ", "u", "n", "e", "x", "p", "e", "c", "t", "e", "d", "l",
       "y" >>

\* Names and values of the text fields of a form.
FieldNames == {"Name", "Email", "Phone"}
FieldValues == {None, <<>>, << "v" >>}

\* The files at pdf_path: no file, a file PdfReader cannot read, a PDF whose
\* get_form_text_fields() is None, a PDF with text fields.
PdfFiles ==
    {[exists |-> FALSE, reader |-> "none", text_fields |-> <<>>,
      opened |-> FALSE],
     [exists |-> TRUE, reader |-> "raises", text_fields |-> <<>>,
      opened |-> FALSE],
     [exists |-> TRUE, reader |-> "no_fields", text_fields |-> <<>>,
      opened |-> FALSE]}
        \cup {[exists |-> TRUE, reader |-> "fields", text_fields |-> f,
               opened |-> FALSE] : f \in Mappings(FieldNames, FieldValues)}

\* hasattr(reader, "get_fields"): PdfReader has the method.
HasGetFields == TRUE

\* Faulty variant of extract_form_fields: the except clause hands back the
\* empty result without the "error" key.
extract_form_fields_NoErrorKey(file) ==
    IF file.reader = "raises"
    THEN [fields |-> <<>>,
          metadata |-> [total_fields |-> 0, filled_fields |-> 0]]
    ELSE IF file.reader = "no_fields" /\ ~HasGetFields
    THEN [fields |-> <<>>,
          metadata |-> [total_fields |-> 0, filled_fields |-> 0,
                        message |-> "No form fields found in PDF"]]
    ELSE LET form_fields ==
                 IF file.reader = "no_fields" \/ file.text_fields = <<>>
                 THEN <<>> ELSE file.text_fields
             filled == Cardinality({k \in DOMAIN form_fields :
                                       Truthy(form_fields[k])})
         IN  [fields |-> form_fields,
              metadata |-> [total_fields |-> Cardinality(DOMAIN form_fields),
                            filled_fields |-> filled]]

\* extract_form_fields(pdf_path): the result dict; any exception of the
\* reader comes back under the key "error".
extract_form_fields(file) ==
    IF file.reader = "raises"
    THEN [error |-> NotPdfText, fields |-> <<>>,
          metadata |-> [total_fields |-> 0, filled_fields |-> 0]]
    ELSE IF file.reader = "no_fields" /\ ~HasGetFields
    THEN [fields |-> <<>>,
          metadata |-> [total_fields |-> 0, filled_fields |-> 0,
                        message |-> "No form fields found in PDF"]]
    ELSE LET form_fields ==
                 IF file.reader = "no_fields" \/ file.text_fields = <<>>
                 THEN <<>> ELSE file.text_fields
             filled == Cardinality({k \in DOMAIN form_fields :
                                       Truthy(form_fields[k])})
         IN  [fields |-> form_fields,
              metadata |-> [total_fields |-> Cardinality(DOMAIN form_fields),
                            filled_fields |-> filled]]

\* if not pdf_path.exists(): print(...); sys.exit(1)
PdfCheckFile ==
    /\ script_pc = "pdf_start"
    /\ IF ~pdf_file.exists
       THEN /\ sys_stderr' = Append(sys_stderr, FileNotFoundText \o args.pdf_path)
            /\ ScriptExit(1)
       ELSE /\ script_pc' = "pdf_found"
            /\ UNCHANGED << sys_stderr, exit_status >>
    /\ UNCHANGED << exec_vars, file_vars, setup_vars, csv_file, args,
                    script_exc, sys_stdout, tid, other, hist, pdf_file,
                    tavily, repl >>

\* result = extract_form_fields(pdf_path); with "error" in result the message
\* goes to stderr, the JSON to stdout, and the run ends with status 1;
\* otherwise the JSON is printed and main() returns.
PdfExtractAndPrint ==
    /\ script_pc = "pdf_found"
    /\ pdf_file' = [pdf_file EXCEPT !.opened = TRUE]
    /\ LET result == extract_form_fields(pdf_file)
       IN  /\ sys_stdout' = Append(sys_stdout, result)
           /\ IF "error" \in DOMAIN result
              THEN /\ sys_stderr' =
                          Append(sys_stderr, ExtractErrorText \o result.error)
                   /\ ScriptExit(1)
              ELSE /\ ScriptExit(0)
                   /\ UNCHANGED sys_stderr
    /\ UNCHANGED << exec_vars, file_vars, setup_vars, csv_file, args,
                    script_exc, tid, other, hist, tavily, repl >>

\* Every file at pdf_path.
InitPdf ==
    /\ Construct(120, MaxChars, [is_none |-> TRUE, dict |-> <<>>])
    /\ os_environ = FullEnviron
    /\ pc = "idle"
    /\ proc_env = <<>>
    /\ shell = "none"
    /\ returncode = 0
    /\ descendants = 0
    /\ out_bytes = <<>>
    /\ err_bytes = <<>>
    /\ deadline = FALSE
    /\ exc = "None"
    /\ response = NoResponse
    /\ FilesIdle
    /\ SetupIdle
    /\ csv_file = [exists |-> FALSE, header |-> FALSE, rows |-> <<>>]
    /\ args = [pdf_path |-> PDF_PATH]
    /\ script_pc = "pdf_start"
    /\ script_exc = [kind |-> "None", handler |-> "none"]
    /\ sys_stdout = <<>>
    /\ sys_stderr = <<>>
    /\ exit_status = 0
    /\ tid = 1
    /\ other = IdleCall
    /\ hist = NoHist
    /\ pdf_file \in PdfFiles
    /\ tavily = NoTavily
    /\ repl = NoLoop

NextPdf ==
    \/ PdfCheckFile
    \/ PdfExtractAndPrint

SpecPdf == InitPdf /\ [][NextPdf]_vars

(***************************************************************************)
(* Calls that are left to run: the clock advances while communicate()      *)
(* waits, and the call's own steps are taken when they can be.  Nothing is *)
(* assumed of the command, which may write, start processes, exit or hang. *)
(***************************************************************************)
NextLive ==
    \/ \E launched \in BOOLEAN : ExecuteStart(launched)
    \/ ChildWrite("stdout", "a")
    \/ ChildSpawn
    \/ DescendantExit
    \/ \E status \in ExitStatuses : ChildExit(status)
    \/ DeadlineElapses
    \/ ExecuteComplete
    \/ ExecuteTimeout

SpecLive ==
    /\ Init
    /\ [][NextLive]_vars
    /\ WF_vars(DeadlineElapses)
    /\ WF_vars(ExecuteComplete)
    /\ WF_vars(ExecuteTimeout)

(***************************************************************************)
(* Two caller threads on one backend instance.  The call variables show    *)
(* the call of the thread that is scheduled; the other thread's call is    *)
(* kept in other.  A switch can come between any two steps, so the steps   *)
(* of two overlapping calls and of their commands interleave in every way. *)
(***************************************************************************)
\* The command each of the threads 1 and 2 runs: the byte it writes, the status it exits with.
CommandOf ==
    << [byte |-> "a", status |-> 0], [byte |-> InvalidByte, status |-> 2] >>

\* The locals of the scheduled thread's execute() call, and the child and
\* pipes its subprocess.run holds.
ThisCall ==
    [pc |-> pc, proc_env |-> proc_env, shell |-> shell,
     returncode |-> returncode, descendants |-> descendants,
     out_bytes |-> out_bytes, err_bytes |-> err_bytes, deadline |-> deadline,
     exc |-> exc, response |-> response]

\* Faulty variant of Resume: the child and its pipes are kept on the
\* instance, so that a thread goes on with those of the call made last.
Resume_ProcOnSelf(call) ==
    /\ pc' = call.pc
    /\ proc_env' = call.proc_env
    /\ deadline' = call.deadline
    /\ exc' = call.exc
    /\ response' = call.response
    /\ UNCHANGED << shell, returncode, descendants, out_bytes, err_bytes >>

\* A thread goes on with its own call: everything execute() works on is
\* local to the call.
Resume(call) ==
    /\ pc' = call.pc
    /\ proc_env' = call.proc_env
    /\ shell' = call.shell
    /\ returncode' = call.returncode
    /\ descendants' = call.descendants
    /\ out_bytes' = call.out_bytes
    /\ err_bytes' = call.err_bytes
    /\ deadline' = call.deadline
    /\ exc' = call.exc
    /\ response' = call.response

\* The other thread is scheduled.
SwitchThread ==
    /\ tid' = 3 - tid
    /\ other' = ThisCall
    /\ Resume(other)
    /\ UNCHANGED << config_vars, os_environ, file_vars, script_vars,
                    setup_vars, hist, pdf_file, tavily, repl >>

InitPair ==
    /\ \E max \in 0..MaxChars :
          Construct(1, max, [is_none |-> TRUE, dict |-> <<>>])
    /\ os_environ = FullEnviron
    /\ InitCall
    /\ ExtIdle
    /\ FilesIdle
    /\ ScriptIdle
    /\ SetupIdle

NextPair ==
    \/ \E launched \in BOOLEAN : ExecuteStart(launched)
    \/ \E stream \in {"stdout", "stderr"} :
          ChildWrite(stream, CommandOf[tid].byte)
    \/ ChildExit(CommandOf[tid].status)
    \/ DeadlineElapses
    \/ ExecuteComplete
    \/ ExecuteTimeout
    \/ SwitchThread

SpecPair == InitPair /\ [][NextPair]_vars

(***************************************************************************)
(* A host environment that changes between and during calls.               *)
(***************************************************************************)
\* Names the host process sets and unsets, and the values it sets.
ChangedNames == {"HOME", "PATH"}
ChangedValues == HostValues \cup {"changed"}

\* os.environ[name] = value in the host process.
HostPutenv(name, value) ==
    /\ IF name \in DOMAIN os_environ THEN os_environ[name] # value ELSE TRUE
    /\ os_environ' =
          [n \in (DOMAIN os_environ) \cup {name} |->
              IF n = name THEN value ELSE os_environ[n]]
    /\ UNCHANGED << config_vars, pc, proc_env, proc_vars, deadline, exc,
                    response, aux_vars >>

\* del os.environ[name] in the host process.
HostUnsetenv(name) ==
    /\ name \in DOMAIN os_environ
    /\ os_environ' = [n \in (DOMAIN os_environ) \ {name} |-> os_environ[n]]
    /\ UNCHANGED << config_vars, pc, proc_env, proc_vars, deadline, exc,
                    response, aux_vars >>

\* execute() called, with a note of the call: that it was made, what the
\* call before handed to its subprocess, and os.environ as this call finds it.
HostExecute(launched) ==
    /\ StartCall(launched)
    /\ hist' = [calls |-> IF hist.calls = 0 THEN 1 ELSE 2,
                prev_env |-> proc_env,
                environ |-> os_environ]
    /\ UNCHANGED << file_vars, script_vars, setup_vars, tid, other,
                    pdf_file, tavily, repl >>

InitHost ==
    /\ \E arg \in AllowlistArgs(ChangedNames) : Construct(120, MaxChars, arg)
    /\ os_environ \in Mappings(EnvNames, HostValues)
    /\ InitCall
    /\ ExtIdle
    /\ FilesIdle
    /\ ScriptIdle
    /\ SetupIdle

NextHost ==
    \/ \E launched \in BOOLEAN : HostExecute(launched)
    \/ \E name \in ChangedNames, value \in ChangedValues :
          HostPutenv(name, value)
    \/ \E name \in ChangedNames : HostUnsetenv(name)
    \/ ChildExit(0)
    \/ ExecuteComplete

SpecHost == InitHost /\ [][NextHost]_vars

(***************************************************************************)
(* The id property of the backend.                                         *)
(***************************************************************************)
LocalExecIdPrefix ==
    << "l", "o", "c", "a", "l", "-", "e", "x", "e", "c", "-" >>

\* f"local-exec-{self.cwd.name}": the last component of the working directory.
id == LocalExecIdPrefix \o cwd[Len(cwd)]

(***************************************************************************)
(* search_news.py: one run of main().                                      *)
(***************************************************************************)
\* The longest list of results a search returns.
MaxResults == 2

COMPANY ==
    << "A", "n", "t", "h", "r", "o", "p", "i", "c" >>
OUTPUT_PATH ==
    << "o", "u", "t", ".", "j", "s", "o", "n" >>
\* The messages main() prints to stderr.
NoApiKeyText ==
    << "E", "r", "r", "o", "r", ":", " ", "T", "A", "V", "I", "L", "Y", "_",
       "A", "P", "I", "_", "K", "E", "Y", " ", "e", "n", "v", "i", "r", "o",
       "n", "m", "e", "n", "t", " ", "v", "a", "r", "i", "a", "b", "l", "e",
       " ", "n", "o", "t", " ", "s", "e", "t", ".", "\n", "S", "e", "t", " ",
       "i", "t", " ", "i", "n", " ", "y", "o", "u", "r", " ", ".", "e", "n",
       "v", " ", "f", "i", "l", "e", " ", "o", "r", " ", "e", "x", "p", "o",
       "r", "t", " ", "i", "t", " ", "i", "n", " ", "y", "o", "u", "r", " ",
       "s", "h", "e", "l", "l", "." >>
ClientFailedText ==
    << "E", "r", "r", "o", "r", ":", " ", "F", "a", "i", "l", "e", "d", " ",
       "t", "o", " ", "i", "n", "i", "t", "i", "a", "l", "i", "z", "e", " ",
       "T", "a", "v", "i", "l", "y", " ", "c", "l", "i", "e", "n", "t", ":",
       " " >>
SearchFailedText ==
    << "E", "r", "r", "o", "r", ":", " ", "T", "a", "v", "i", "l", "y", " ",
       "s", "e", "a", "r", "c", "h", " ", "f", "a", "i", "l", "e", "d", ":",
       " " >>
WriteFailedText ==
    << "E", "r", "r", "o", "r", ":", " ", "F", "a", "i", "l", "e", "d", " ",
       "t", "o", " ", "w", "r", "i", "t", "e", " ", "o", "u", "t", "p", "u",
       "t", " ", "f", "i", "l", "e", ":", " " >>
\* str(e) of what the Tavily client raises, and of the OSError of open().
TavilyErrorText ==
    << "U", "n", "a", "u", "t", "h", "o", "r", "i", "z", "e", "d" >>
PermissionDeniedText ==
    << "[", "E", "r", "r", "n", "o", " ", "1", "3", "]", " ", "P", "e", "r",
       "m", "i", "s", "s", "i", "o", "n", " ", "d", "e", "n", "i", "e", "d",
       ":", " ", "'", "o", "u", "t", ".", "j", "s", "o", "n", "'" >>
\* The times datetime.now(timezone.utc).isoformat() gives.
EARLY ==
    << "2", "0", "2", "5", "-", "0", "1", "-", "0", "1", "T", "0", "0", ":",
       "0", "0", ":", "0", "0", "+", "0", "0", ":", "0", "0" >>
LATE ==
    << "2", "0", "2", "5", "-", "0", "1", "-", "0", "2", "T", "0", "0", ":",
       "0", "0", ":", "0", "0", "+", "0", "0", ":", "0", "0" >>
ClockValues == {EARLY, LATE}

\* An item of the "results" list of a Tavily response, with or without a
\* title and a published date.
TavilyItems ==
    {<<>>, [title |-> << "t" >>],
     [title |-> << "u" >>, published_date |-> << "d" >>]}

\* What client.search returns: a mapping with or without the key "results".
TavilyResponses ==
    {<<>>} \cup {[results |-> r] : r \in SeqsUpTo(TavilyItems, MaxResults)}

\* What a run finds: os.getenv("TAVILY_API_KEY"), whether TavilyClient() and
\* client.search() raise, the response, whether args.output can be written;
\* and the files the run has written at args.output.
TavilyRuns ==
    [api_key : {None, <<>>, << "k" >>},
     client : {"ok", "raises"},
     search : {"returns", "raises"},
     response : TavilyResponses,
     writable : BOOLEAN,
     saved : {<<>>}]

\* The values of --output: absent, the empty text, a path.
OutputArgs == {None, <<>>, OUTPUT_PATH}

\* item.get(key, default)
Get(item, key, default) == IF key \in DOMAIN item THEN item[key] ELSE default

\* The loop of lines 118-128 over response.get("results", []).
NormaliseResults(resp) ==
    LET items == Get(resp, "results", <<>>)
    IN  [i \in 1..Len(items) |->
            [title |-> Get(items[i], "title", <<>>),
             published_at |-> Get(items[i], "published_date", None)]]

\* The dict built at lines 131-138.
output_data(a, results, now) ==
    [company |-> a.company,
     search_type |-> "news",
     queried_at |-> now,
     lookback_days |-> a.days,
     results |-> results,
     total_results |-> Len(results)]

\* The dict built at lines 149-156.
summary(a, results) ==
    [saved_to |-> a.output,
     company |-> a.company,
     search_type |-> "news",
     total_results |-> Len(results),
     top_result |-> IF results # <<>> THEN results[1].title ELSE None,
     lookback_days |-> a.days]

news_frame == << exec_vars, file_vars, setup_vars, csv_file, args, script_exc,
                 tid, other, hist, pdf_file, repl >>

\* api_key = os.getenv("TAVILY_API_KEY"); if not api_key: exit 1.
NewsCheckKey ==
    /\ script_pc = "news_start"
    /\ IF ~Truthy(tavily.api_key)
       THEN /\ sys_stderr' = Append(sys_stderr, NoApiKeyText)
            /\ ScriptExit(1)
       ELSE /\ script_pc' = "news_keyed"
            /\ UNCHANGED << sys_stderr, exit_status >>
    /\ UNCHANGED << news_frame, tavily, sys_stdout >>

\* client = TavilyClient(api_key=api_key), then client.search(...): an
\* Exception of either is printed to stderr and the run exits with 1.
NewsSearch ==
    /\ script_pc = "news_keyed"
    /\ IF tavily.client = "raises"
       THEN /\ sys_stderr' =
                  Append(sys_stderr, ClientFailedText \o TavilyErrorText)
            /\ ScriptExit(1)
       ELSE IF tavily.search = "raises"
       THEN /\ sys_stderr' =
                  Append(sys_stderr, SearchFailedText \o TavilyErrorText)
            /\ ScriptExit(1)
       ELSE /\ script_pc' = "news_searched"
            /\ UNCHANGED << sys_stderr, exit_status >>
    /\ UNCHANGED << news_frame, tavily, sys_stdout >>

\* Lines 118-160: the results are normalised and output_data is built; with
\* a truthy args.output it is written to that file and a summary is printed,
\* and a failure to write ends the run with 1; otherwise main() returns.
NewsOutput ==
    /\ script_pc = "news_searched"
    /\ \E now \in ClockValues :
          LET results == NormaliseResults(tavily.response)
          IN  IF Truthy(args.output)
              THEN IF tavily.writable
                   THEN /\ tavily' = [tavily EXCEPT !.saved =
                               Append(@, output_data(args, results, now))]
                        /\ sys_stdout' =
                               Append(sys_stdout, summary(args, results))
                        /\ ScriptExit(0)
                        /\ UNCHANGED sys_stderr
                   ELSE /\ sys_stderr' = Append(sys_stderr,
                               WriteFailedText \o PermissionDeniedText)
                        /\ ScriptExit(1)
                        /\ UNCHANGED << sys_stdout, tavily >>
              ELSE /\ ScriptExit(0)
                   /\ UNCHANGED << sys_stdout, sys_stderr, tavily >>
    /\ UNCHANGED news_frame

\* Every run of `search_news.py Anthropic [--output ...]`.
InitNews ==
    /\ Construct(120, MaxChars, [is_none |-> TRUE, dict |-> <<>>])
    /\ os_environ = FullEnviron
    /\ InitCall
    /\ FilesIdle
    /\ SetupIdle
    /\ csv_file = [exists |-> FALSE, header |-> FALSE, rows |-> <<>>]
    /\ \E output \in OutputArgs :
          args = [company |-> COMPANY, days |-> 7, max_results |-> 10,
                  output |-> output]
    /\ script_pc = "news_start"
    /\ script_exc = [kind |-> "None", handler |-> "none"]
    /\ sys_stdout = <<>>
    /\ sys_stderr = <<>>
    /\ exit_status = 0
    /\ tid = 1
    /\ other = IdleCall
    /\ hist = NoHist
    /\ pdf_file = NoPdf
    /\ tavily \in TavilyRuns
    /\ repl = NoLoop

NextNews ==
    \/ NewsCheckKey
    \/ NewsSearch
    \/ NewsOutput

SpecNews == InitNews /\ [][NextNews]_vars

(***************************************************************************)
(* interactive_loop: the while True loop of runner.py.                     *)
(***************************************************************************)
\* The number of times input() is called in a run of the model.
MaxPrompts == 4

\* str.isspace() of a character.
IsSpace(ch) == ch \in {" ", "\t", "\n", "\r"}

\* str.strip()
RECURSIVE LStrip(_)
LStrip(text) ==
    IF text # <<>> /\ IsSpace(Head(text)) THEN LStrip(Tail(text)) ELSE text
RECURSIVE RStrip(_)
RStrip(text) ==
    IF text # <<>> /\ IsSpace(text[Len(text)])
    THEN RStrip(SubSeq(text, 1, Len(text) - 1))
    ELSE text
Strip(text) == RStrip(LStrip(text))

\* str.lower()
LowerOf(ch) ==
    CASE ch = "A" -> "a"
          [] ch = "B" -> "b"
          [] ch = "C" -> "c"
          [] ch = "D" -> "d"
          [] ch = "E" -> "e"
          [] ch = "F" -> "f"
          [] ch = "G" -> "g"
          [] ch = "H" -> "h"
          [] ch = "I" -> "i"
          [] ch = "J" -> "j"
          [] ch = "K" -> "k"
          [] ch = "L" -> "l"
          [] ch = "M" -> "m"
          [] ch = "N" -> "n"
          [] ch = "O" -> "o"
          [] ch = "P" -> "p"
          [] ch = "Q" -> "q"
          [] ch = "R" -> "r"
          [] ch = "S" -> "s"
          [] ch = "T" -> "t"
          [] ch = "U" -> "u"
          [] ch = "V" -> "v"
          [] ch = "W" -> "w"
          [] ch = "X" -> "x"
          [] ch = "Y" -> "y"
          [] ch = "Z" -> "z"
          [] OTHER -> ch
Lower(text) == [i \in 1..Len(text) |-> LowerOf(text[i])]

QUIT == << "q", "u", "i", "t" >>
EXIT == << "e", "x", "i", "t" >>
Q == << "q" >>
HELP == << "h", "e", "l", "p" >>
\* ["quit", "exit", "q"]
QuitWords == {QUIT, EXIT, Q}

\* The lines input() returns.
Lines ==
    {<<>>,
     << " " >>,
     << "q", "u", "i", "t" >>,
     << " ", "Q", "u", "i", "t", " " >>,
     << "E", "X", "I", "T" >>,
     << "q" >>,
     << "Q", "\t" >>,
     << "h", "e", "l", "p" >>,
     << " ", "H", "E", "L", "P" >>,
     << "h", "i" >>,
     << "q", "u", "i", "t", " ", "n", "o", "w" >>,
     << "\t", "q", " ", "q" >>}

\* What is raised inside input(): Ctrl-C, and end of input on stdin.
InputExceptions == {"KeyboardInterrupt", "EOFError"}
\* What is raised while agent.stream() is iterated: Ctrl-C, any Exception.
StreamExceptions == {"KeyboardInterrupt", "Exception"}

loop_frame == << exec_vars, file_vars, script_vars, setup_vars, tid, other,
                 hist, pdf_file, tavily >>

\* input("\n> ").strip() returns, and the three tests that follow it: an
\* empty input continues, quit/exit/q breaks, help prints and continues,
\* anything else starts agent.stream().
LoopRead(line) ==
    /\ repl.pc = "prompt"
    /\ repl.prompts < MaxPrompts
    /\ LET user_input == Strip(line)
       IN  repl' =
             [repl EXCEPT
                !.prompts = @ + 1,
                !.line = line,
                !.user_input = user_input,
                !.event =
                    IF ~Truthy(user_input) THEN "empty"
                    ELSE IF Lower(user_input) \in QuitWords THEN "break"
                    ELSE IF Lower(user_input) = HELP THEN "help"
                    ELSE "stream",
                !.invoked =
                    /\ Truthy(user_input)
                    /\ Lower(user_input) \notin QuitWords
                    /\ Lower(user_input) # HELP,
                !.pc =
                    IF ~Truthy(user_input) THEN "prompt"
                    ELSE IF Lower(user_input) \in QuitWords THEN "ended"
                    ELSE IF Lower(user_input) = HELP THEN "prompt"
                    ELSE "streaming"]
    /\ UNCHANGED loop_frame

\* Faulty variant of LoopHandler: end of input on stdin ends the loop.
LoopHandler_BreakOnEof(e) ==
    [pc |-> IF e = "EOFError" THEN "ended" ELSE "prompt", event |-> e]

\* except KeyboardInterrupt: ... continue; except Exception as e: ... continue
LoopHandler(e) == [pc |-> "prompt", event |-> e]

\* input() raises: user_input is not assigned and the handler runs.
LoopReadRaises(e) ==
    /\ repl.pc = "prompt"
    /\ repl.prompts < MaxPrompts
    /\ repl' = [repl EXCEPT !.prompts = @ + 1,
                            !.invoked = FALSE,
                            !.pc = LoopHandler(e).pc,
                            !.event = LoopHandler(e).event]
    /\ UNCHANGED loop_frame

\* The for loop over agent.stream() comes to its end.
LoopStreamEnds ==
    /\ repl.pc = "streaming"
    /\ repl' = [repl EXCEPT !.pc = "prompt", !.event = "streamed"]
    /\ UNCHANGED loop_frame

\* agent.stream() raises, or Ctrl-C arrives while it is iterated.
LoopStreamRaises(e) ==
    /\ repl.pc = "streaming"
    /\ repl' = [repl EXCEPT !.pc = LoopHandler(e).pc,
                            !.event = LoopHandler(e).event]
    /\ UNCHANGED loop_frame

\* interactive_loop(agent) has printed its banner and enters the loop.
InitLoop ==
    /\ Construct(120, MaxChars, [is_none |-> TRUE, dict |-> <<>>])
    /\ os_environ = FullEnviron
    /\ InitCall
    /\ FilesIdle
    /\ ScriptIdle
    /\ SetupIdle
    /\ tid = 1
    /\ other = IdleCall
    /\ hist = NoHist
    /\ pdf_file = NoPdf
    /\ tavily = NoTavily
    /\ repl = [NoLoop EXCEPT !.pc = "prompt"]

NextLoop ==
    \/ \E line \in Lines : LoopRead(line)
    \/ \E e \in InputExceptions : LoopReadRaises(e)
    \/ LoopStreamEnds
    \/ \E e \in StreamExceptions : LoopStreamRaises(e)

SpecLoop == InitLoop /\ [][NextLoop]_vars

(***************************************************************************)
(* Properties.                                                             *)
(***************************************************************************)
\* The call has ended at one of the three return statements.
Returned == pc \in {"ret_normal", "ret_timeout", "ret_error"}

\* The command finished within the timeout: the shell child ended by itself
\* and communicate() came back before the deadline.
FinishedInTime == shell = "exited" /\ ~deadline

\* The command was still running when the timeout elapsed.
TimedOut == deadline

\* The captured streams as text, and their combination, written out from
\* the streams themselves.
StdoutText == TranslateNewlines(out_bytes)
StderrText == TranslateNewlines(err_bytes)
CombinedText ==
    IF StdoutText = <<>> THEN StderrText
    ELSE IF StderrText = <<>> THEN StdoutText
    ELSE StdoutText \o << "\n" >> \o StderrText

\* The first k and the last k elements of s.
FirstChars(s, k) == SubSeq(s, 1, k)
LastChars(s, k) == SubSeq(s, Len(s) - k + 1, Len(s))

\* C1: for every command that finishes within the timeout, the returned
\* exit_code equals the child's real exit status.
C1_ExitCodeIsRealStatus ==
    (Returned /\ FinishedInTime) => response.exit_code = returncode

\* C2: for every command that finishes within the timeout, truncated is
\* false if and only if the combined output is at most max_output_chars long.
C2_TruncatedIffTooLong ==
    (Returned /\ FinishedInTime) =>
        (response.truncated = FALSE <=> Len(CombinedText) <= max_output_chars)

\* "Command timed out after 1s" and "Command timed out after 120s"
TimedOutAfter1s == TimeoutPrefix \o << "1", "s" >>
TimedOutAfter120s == TimeoutPrefix \o << "1", "2", "0", "s" >>

C4_NoProcessLeftAfterTimeout ==
    pc = "ret_timeout" => (shell # "running" /\ descendants = 0)

\* C5: an output longer than max_output_chars is returned as the first
\* max_output_chars/2 characters, the marker, and the last max_output_chars/2
\* characters of the combined output.
C5_HeadMarkerTail ==
    (pc = "ret_normal" /\ Len(CombinedText) > max_output_chars) =>
        response.output =
            FirstChars(CombinedText, max_output_chars \div 2)
                \o TRUNC_MARKER
                \o LastChars(CombinedText, max_output_chars \div 2)

\* C6 as stated: a truncated output is max_output_chars + len(marker) long,
\* for even and for odd max_output_chars.
C6_LengthIsMaxPlusMarker ==
    (pc = "ret_normal" /\ Len(CombinedText) > max_output_chars) =>
        Len(response.output) = max_output_chars + 21

\* C6 as amended: a truncated output is 2 * (max_output_chars div 2) + 21
\* long when max_output_chars >= 2, which is max_output_chars + 21 for
\* even values only; below 2 it is the whole output after the marker.
C6_LengthIsTwoHalvesPlusMarker ==
    (pc = "ret_normal" /\ Len(CombinedText) > max_output_chars) =>
        Len(response.output) =
            IF max_output_chars >= 2
            THEN 2 * (max_output_chars \div 2) + 21
            ELSE Len(CombinedText) + 21

\* C6's case: an odd max_output_chars that is exceeded; the result is one
\* character shorter than max_output_chars + 21.
C6_Witness ==
    /\ pc = "ret_normal"
    /\ response.truncated
    /\ max_output_chars = 3
    /\ Len(CombinedText) > 3
    /\ Len(response.output) = 23

RaisedText ==
    IF exc = "OSError" THEN OSErrorText
    ELSE DecodeErrorText(out_bytes, err_bytes)

\* C8 as stated: every exception raised in the call other than the timeout
\* is returned as exit_code 1 with truncated = false, and no exception ever
\* reaches the caller.
C8_NoExceptionPropagates ==
    /\ pc # "raised"
    /\ exc \notin {"None", "TimeoutExpired"} =>
           (pc = "ret_error" /\ response.exit_code = 1 /\ ~response.truncated)

\* C8 as amended: a failure to start the process and a failure to decode the
\* output (exceptions derived from Exception) are returned as exit_code 1,
\* truncated = false and "Error executing command: " followed by the message;
\* only an exception that is not derived from Exception (KeyboardInterrupt)
\* reaches the caller.
C8_ExceptionsCaught ==
    /\ exc \in {"OSError", "UnicodeDecodeError"} =>
           /\ pc = "ret_error"
           /\ response.exit_code = 1
           /\ response.truncated = FALSE
           /\ response.output = ErrorPrefix \o RaisedText
    /\ pc = "raised" => exc = "KeyboardInterrupt"

\* C8's case: the output could not be decoded after the command had ended.
C8_Witness ==
    /\ pc = "ret_error"
    /\ exc = "UnicodeDecodeError"
    /\ shell = "exited"

\* C9: without truncation the output is stdout alone when stderr is empty,
\* stderr alone when stdout is empty, and stdout, one newline, stderr when
\* neither is.
C9_StdoutThenStderr ==
    (pc = "ret_normal" /\ ~response.truncated) =>
        /\ StderrText = <<>> => response.output = StdoutText
        /\ StdoutText = <<>> => response.output = StderrText
        /\ (StdoutText # <<>> /\ StderrText # <<>>) =>
               response.output = StdoutText \o << "\n" >> \o StderrText

\* C9's case: both streams were written and nothing was cut.
C9_Witness ==
    /\ pc = "ret_normal"
    /\ ~response.truncated
    /\ out_bytes # <<>>
    /\ err_bytes # <<>>

\* C10 as stated: exit_code 124 is returned only for a timeout and exit_code 1
\* only for a harness failure, so exit_code alone tells the three cases apart.
C10_ExitCodeTellsThePath ==
    Returned =>
        /\ response.exit_code = 124 => pc = "ret_timeout"
        /\ response.exit_code = 1 => pc = "ret_error"

\* C10 as amended: a timeout is always reported as 124 and a harness failure
\* always as 1, and any other exit_code is the status of a command that
\* completed; 124 and 1 are also returned for commands that exit with them.
C10_ReservedCodesOneWay ==
    /\ pc = "ret_timeout" => response.exit_code = 124
    /\ pc = "ret_error" => response.exit_code = 1
    /\ (Returned /\ response.exit_code \notin {1, 124}) =>
           (pc = "ret_normal" /\ response.exit_code = returncode)

\* C10's case: a command that completed with exit status 124 by itself.
C10_Witness ==
    /\ pc = "ret_normal"
    /\ returncode = 124
    /\ response.exit_code = 124


(***************************************************************************)
(* Properties of the file operations and the router.                       *)
(***************************************************************************)
FileOps == {"ls", "read", "write", "edit"}

\* The last call was a file operation that has returned.
FileCallReturned == fop.op \in FileOps

\* The path handed to the backend denotes a host path outside its root.
Escapes(b, key) == ~Within(RootDir[b], HostPath(b, key))

\* C11: every list, read, write and edit of a backend, the workspace backend
\* included, rejects an input path that resolves outside the backend's root.
C11_EscapingPathRejected ==
    (FileCallReturned /\ Escapes(fop.backend, fop.fwd))
        => fop.status = "rejected"

\* The call went through the router and carried a path.
RoutedFileCall == fop.via = "router" /\ fop.op \in FileOps

\* The registered prefixes that are literal prefixes of the call's path.
MatchingOfCall == {p \in DOMAIN composite.routes : StartsWith(fop.path, p)}

\* C12: the router dispatches a path-carrying operation to the backend
\* registered under the longest prefix that is a literal prefix of the path,
\* and dispatches it as the default backend's exactly when no registered
\* prefix is one.
C12_LongestPrefixDispatch ==
    RoutedFileCall =>
        /\ (MatchingOfCall = {}) <=> (fop.prefix = <<>>)
        /\ fop.prefix = <<>> => fop.backend = composite.default
        /\ fop.prefix # <<>> =>
              /\ fop.prefix \in MatchingOfCall
              /\ \A q \in MatchingOfCall : Len(q) <= Len(fop.prefix)
              /\ fop.backend = composite.routes[fop.prefix]

\* A read of "/skills/x/a" under a table that registers both "/skills/" and
\* "/skills/x/" for different backends.
C12_Witness ==
    /\ RoutedFileCall
    /\ fop.path = NESTED_PREFIX \o << "a" >>
    /\ Cardinality(MatchingOfCall) = 2
    /\ composite.routes[SKILLS_PREFIX] = "skills"
    /\ fop.backend = "docs"
    /\ fop.prefix = NESTED_PREFIX

\* C13: a call forwarded to a prefix-mapped backend carries the virtual path
\* with the matched prefix removed and a leading "/" kept; a call forwarded
\* to the default backend carries the path unchanged.
C13_ForwardedPath ==
    RoutedFileCall =>
        IF fop.prefix = <<>>
        THEN fop.fwd = fop.path
        ELSE /\ fop.fwd # <<>>
             /\ fop.fwd[1] = "/"
             /\ fop.prefix \o Tail(fop.fwd) = fop.path

\* "/skills/a" under the prefix "/skills/" reaches the skills backend as "/a".
C13_Witness ==
    /\ RoutedFileCall
    /\ fop.path = SKILLS_PREFIX \o << "a" >>
    /\ fop.prefix = SKILLS_PREFIX
    /\ fop.backend = "skills"
    /\ fop.fwd = << "/", "a" >>
    /\ fop.status = "ok"

\* C14: every execute call made through the router goes to the default
\* backend, whatever the command holds.
C14_ExecuteToDefault ==
    (fop.op = "execute" /\ fop.via = "router")
        => fop.backend = composite.default

\* "ls /skills/" through a router that registers "/skills/" is started on the
\* workspace backend.
C14_Witness ==
    /\ fop.op = "execute"
    /\ fop.via = "router"
    /\ Contains(fop.path, SKILLS_PREFIX)
    /\ SKILLS_PREFIX \in DOMAIN composite.routes
    /\ fop.backend = "workspace"
    /\ fop.status = "started"
    /\ pc = "running"

\* C15: a read through the router of the virtual path that corresponds to
\* the path last written on a backend itself, the file not written or edited
\* since, returns the content written.
C15_RoundTrip ==
    (/\ fop.op = "read"
     /\ fop.via = "router"
     /\ wrote.valid
     /\ Corresponds(composite, fop.path, wrote.backend, wrote.key))
        => (fop.status = "ok" /\ fop.content = wrote.content)

\* "ya" written as "/a" on the skills backend is read back as "/skills/a".
C15_Witness ==
    /\ fop.op = "read"
    /\ fop.via = "router"
    /\ fop.path = SKILLS_PREFIX \o << "a" >>
    /\ wrote.valid
    /\ wrote.backend = "skills"
    /\ wrote.key = << "/", "a" >>
    /\ wrote.content = << "y", "a" >>
    /\ fop.content = << "y", "a" >>

\* C16: execute on a backend without the execution capability hands back the
\* "execution unsupported" error, and starts nothing.
C16_ExecuteUnsupported ==
    (fop.op = "execute" /\ ~Executes[fop.backend]) =>
        (fop.status = "unsupported" /\ pc # "running")

\* execute called on the skills backend itself.
C16_Witness ==
    /\ fop.op = "execute"
    /\ fop.via = "direct"
    /\ fop.backend = "skills"
    /\ fop.status = "unsupported"

(***************************************************************************)
(* Properties of the container backend and of construction.                *)
(***************************************************************************)
\* C17: an execute call made while the container is not running or not
\* reachable returns exit_code 1 with the "container not running" message,
\* which is not the message of a launch failure; it does not raise.
C17_ContainerDownResponse ==
    [][(container # "running" /\ exec_vars' # exec_vars) =>
          /\ pc' = "ret_error"
          /\ response'.exit_code = 1
          /\ response'.output = ContainerNotRunningText
          /\ response'.output # ErrorResponse(OSErrorText).output]_vars

\* A call with the container unreachable has returned.
C17_Witness ==
    /\ container = "unreachable"
    /\ pc = "ret_error"
    /\ exc = "ContainerNotRunning"
    /\ response.exit_code = 1

\* C18: no backend instance exists that was constructed with a root_dir that
\* does not exist or with a malformed env_allowlist.
C18_InvalidConfigFailsAtConstruction ==
    ctor.root_dir_exists /\ ctor.allowlist_iterable

(***************************************************************************)
(* Properties of filter_high_value.py.                                     *)
(***************************************************************************)
\* The run ended with status 0.
Succeeded == script_pc = "exited" /\ exit_status = 0

\* The positions of the CSV rows whose column value is at least the threshold.
Qualifying ==
    {i \in 1..Len(csv_file.rows) :
        csv_file.rows[i][args.column_name] >= args.threshold}

\* C19: a successful run on a numeric column prints one JSON array of at most
\* N records (N >= 0), each with column value >= t, largest first, and they
\* are the N largest qualifying rows (all of them when fewer than N qualify).
C19_TopNQualifying ==
    Succeeded =>
        /\ Len(sys_stdout) = 1
        /\ LET out == sys_stdout[1]
               col == args.column_name
               Printed == {out[k] : k \in 1..Len(out)}
           IN  /\ Len(out) <= args.top
               /\ Len(out) = IF Cardinality(Qualifying) < args.top
                             THEN Cardinality(Qualifying) ELSE args.top
               /\ \A k \in 1..Len(out) : out[k][col] >= args.threshold
               /\ \A k \in 1..(Len(out) - 1) : out[k][col] >= out[k + 1][col]
               /\ Cardinality(Printed) = Len(out)
               /\ \A r \in Printed : \E i \in Qualifying : csv_file.rows[i] = r
               /\ \A i \in Qualifying :
                     csv_file.rows[i] \notin Printed =>
                        \A r \in Printed : csv_file.rows[i][col] <= r[col]

\* Three rows, two printed: one row is below the threshold and the two left
\* come out largest first, against file order.
C19_Witness ==
    /\ Succeeded
    /\ args.column_name = COL_AMOUNT
    /\ args.top = 2
    /\ Len(csv_file.rows) = 3
    /\ Cardinality(Qualifying) = 2
    /\ Len(sys_stdout[1]) = 2
    /\ sys_stdout[1][1][COL_ID] > sys_stdout[1][2][COL_ID]
    /\ sys_stdout[1][1][COL_AMOUNT] > sys_stdout[1][2][COL_AMOUNT]

\* "not found"
NOT_FOUND == << "n", "o", "t", " ", "f", "o", "u", "n", "d" >>

\* The CSV file does not exist.
MissingFile == ~csv_file.exists
\* The CSV was read and the requested column is not one of its columns.
MissingColumn ==
    csv_file.exists /\ csv_file.header /\ args.column_name \notin Columns

\* C20: when the file does not exist or the column is not a column of the
\* CSV, the run ends with status 1, one message holding "not found" on
\* stderr and nothing on stdout; no except clause takes the exit.
C20_NotFoundExit ==
    (MissingFile \/ MissingColumn) =>
        /\ script_pc # "checked"
        /\ script_pc = "exited" =>
              /\ exit_status = 1
              /\ sys_stdout = <<>>
              /\ Len(sys_stderr) = 1
              /\ Contains(sys_stderr[1], NOT_FOUND)
              /\ script_exc.handler = "none"

\* The run on a CSV without the requested column has exited on SystemExit.
C20_Witness ==
    /\ MissingColumn
    /\ script_pc = "exited"
    /\ script_exc.kind = "SystemExit"
    /\ exit_status = 1
    /\ Contains(sys_stderr[1], ColumnNotFoundHead \o COL_NONE)

(***************************************************************************)
(* Properties of extract_forms.py.                                         *)
(***************************************************************************)
\* C21: when the PDF path does not exist the run ends with status 1 and one
\* message holding "not found" on stderr, the file is never opened and
\* nothing is printed to stdout; a run ends with status 0 only when the file
\* exists, the reader could read it, and the JSON printed has no "error" key.
C21_MissingPdfExit ==
    /\ ~pdf_file.exists =>
          /\ script_pc # "pdf_found"
          /\ ~pdf_file.opened
          /\ script_pc = "exited" =>
                /\ exit_status = 1
                /\ sys_stdout = <<>>
                /\ Len(sys_stderr) = 1
                /\ Contains(sys_stderr[1], NOT_FOUND)
    /\ (script_pc = "exited" /\ exit_status = 0) =>
          /\ pdf_file.exists
          /\ pdf_file.reader # "raises"
          /\ Len(sys_stdout) = 1
          /\ "error" \notin DOMAIN sys_stdout[1]

\* The run on a path that does not exist has exited.
C21_Witness ==
    /\ ~pdf_file.exists
    /\ script_pc = "exited"
    /\ exit_status = 1
    /\ sys_stderr = << FileNotFoundText \o PDF_PATH >>

C23_OneChildReaped ==
    /\ [](pc \in {"ret_normal", "ret_timeout"} => shell \in {"exited", "killed"})
    /\ [](pc # "running" => shell # "running")
    /\ [][(shell # "running" /\ shell' = "running")
             => (pc # "running" /\ pc' = "running")]_vars
    /\ [][(pc = "running" /\ exc' # "None") => pc' # "running"]_vars

\* A call has returned on the timeout path, its child killed and waited for.
C23_Witness ==
    /\ pc = "ret_timeout"
    /\ exc = "TimeoutExpired"
    /\ shell = "killed"
    /\ returncode = 0 - 9

(***************************************************************************)
(* Properties of overlapping calls.                                        *)
(***************************************************************************)
\* The streams of a call as text and their combination.
CombinedOf(call) ==
    LET o == TranslateNewlines(call.out_bytes)
        e == TranslateNewlines(call.err_bytes)
    IN  IF o = <<>> THEN e
        ELSE IF e = <<>> THEN o
        ELSE o \o << "\n" >> \o e

\* The call of thread t holds and returns what its own command did: the
\* pipes hold that command's bytes only; a normal response carries that
\* command's status and output; a timeout response is returned only when the
\* call's own deadline elapsed; an error response only when the call's own
\* child could not be started or its own output could not be decoded.
OwnResult(t, call) ==
    /\ \A i \in 1..Len(call.out_bytes) : call.out_bytes[i] = CommandOf[t].byte
    /\ \A i \in 1..Len(call.err_bytes) : call.err_bytes[i] = CommandOf[t].byte
    /\ call.pc = "ret_normal" =>
          /\ call.response.exit_code = CommandOf[t].status
          /\ call.response.truncated <=> Len(CombinedOf(call)) > max_output_chars
          /\ ~call.response.truncated => call.response.output = CombinedOf(call)
    /\ call.pc = "ret_timeout" =>
          /\ call.deadline
          /\ call.response = TimeoutResponse(default_timeout)
    /\ call.pc = "ret_error" =>
          /\ call.response.exit_code = 1
          /\ \/ call.exc = "OSError" /\ call.shell = "none"
             \/ /\ call.exc = "UnicodeDecodeError"
                /\ ~(Decodable(call.out_bytes) /\ Decodable(call.err_bytes))

\* C24: in every interleaving of two overlapping calls on one instance each
\* call returns the exit code and output of its own command, and no step of
\* one call changes anything of the other call, its response included.
C24_CallsIndependent ==
    /\ [](OwnResult(tid, ThisCall) /\ OwnResult(3 - tid, other))
    /\ [][tid' = tid => other' = other]_vars
    /\ [][tid' # tid => (other' = ThisCall /\ ThisCall' = other)]_vars

\* Thread 1's call has returned its command's output while thread 2's call,
\* whose deadline has elapsed, is still inside subprocess.run.
C24_Witness ==
    /\ tid = 1
    /\ pc = "ret_normal"
    /\ response.output = << "a" >>
    /\ other.pc = "running"
    /\ other.deadline
    /\ other.out_bytes # <<>>

(***************************************************************************)
(* Properties of the subprocess environment under a changing host.         *)
(***************************************************************************)
\* The allowlisted names, and PATH, that an environment has, with the
\* values it gives them.
AllowedOf(environ) ==
    [n \in {m \in (DOMAIN env_allowlist) \cup {"PATH"} : m \in DOMAIN environ}
        |-> environ[n]]

\* C25: the environment handed to the subprocess of each call is computed
\* from the host environment as it is when that call is made, whatever an
\* earlier call was handed and whatever the host has set or unset since.
C25_EnvComputedPerCall ==
    hist.calls > 0 => proc_env = AllowedOf(hist.environ)

\* A second call hands on a variable the host set after the first call,
\* which had not handed it on.
C25_Witness ==
    /\ hist.calls = 2
    /\ "HOME" \in DOMAIN env_allowlist
    /\ "HOME" \notin DOMAIN hist.prev_env
    /\ "HOME" \in DOMAIN proc_env
    /\ proc_env["HOME"] = "changed"
    /\ pc = "running"

\* C29: every variable handed to the subprocess has the value the host
\* environment gives that name when the call is made, and never the value
\* the env_allowlist mapping stores under the name.
C29_HostValuesOnly ==
    hist.calls > 0 =>
        \A n \in DOMAIN proc_env :
            /\ n \in DOMAIN hist.environ
            /\ proc_env[n] = hist.environ[n]
            /\ n \in DOMAIN env_allowlist => proc_env[n] # env_allowlist[n]

\* A call hands on HOME and PATH with the host's values although the
\* allowlist stores other values under both names.
C29_Witness ==
    /\ hist.calls > 0
    /\ shell = "running"
    /\ {"HOME", "PATH"} \subseteq DOMAIN env_allowlist
    /\ \A n \in {"HOME", "PATH"} :
          /\ n \in DOMAIN proc_env
          /\ env_allowlist[n] = "allow"
          /\ proc_env[n] = "host"

(***************************************************************************)
(* What execute() leaves as the constructors made it.                      *)
(***************************************************************************)
\* C26: no step of an execute call, whether the call succeeds, times out,
\* fails or is interrupted, changes the instance's cwd, default_timeout,
\* max_output_chars, env_allowlist or id, the host process's environment,
\* or the router's prefix table and default backend.
C26_NothingMutated ==
    [][ /\ cwd' = cwd
        /\ default_timeout' = default_timeout
        /\ max_output_chars' = max_output_chars
        /\ env_allowlist' = env_allowlist
        /\ id' = id
        /\ os_environ' = os_environ
        /\ composite'.routes = composite.routes
        /\ composite'.default = composite.default ]_vars

\* A call has timed out on an instance whose allowlist names HOME but not
\* PATH, after PATH was added to the subprocess environment.
C26_Witness ==
    /\ pc = "ret_timeout"
    /\ DOMAIN env_allowlist = {"HOME"}
    /\ "PATH" \in DOMAIN proc_env
    /\ id = LocalExecIdPrefix \o << "W" >>

(***************************************************************************)
(* The length of the returned output on every path.                        *)
(***************************************************************************)
\* C28: the output of every response execute returns, on the normal, the
\* truncated, the timeout and the harness-error path and for every
\* non-negative max_output_chars, is at most max_output_chars plus the
\* length of the truncation marker long.
C28_OutputBoundedOnEveryPath ==
    Returned => Len(response.output) <= max_output_chars + Len(TRUNC_MARKER)

(***************************************************************************)
(* Properties of search_news.py.                                           *)
(***************************************************************************)
\* The values a run has put out: printed to stdout or written at args.output.
NewsOutputs ==
    {sys_stdout[i] : i \in 1..Len(sys_stdout)}
        \cup {tavily.saved[i] : i \in 1..Len(tavily.saved)}

\* C27: every run of search_news.py that ends with status 0 has put out the
\* result JSON with the company name, the time of the query and the list of
\* results, with and without --output.
C27_SuccessfulRunOutputsJson ==
    (script_pc = "exited" /\ exit_status = 0) =>
        \E v \in NewsOutputs :
            /\ {"company", "queried_at", "results"} \subseteq DOMAIN v
            /\ v.company = args.company
            /\ v.queried_at \in ClockValues
            /\ v.results = NormaliseResults(tavily.response)

(***************************************************************************)
(* Properties of interactive_loop.                                         *)
(***************************************************************************)
\* The line without the white space at its two ends, written from what
\* trimming means: the part between the first and the last character that
\* is not white space.
TrimmedOf(line) ==
    LET n == Len(line)
        inner == {i \in 1..n : ~IsSpace(line[i])}
    IN  IF inner = {} THEN <<>>
        ELSE SubSeq(line,
                    CHOOSE i \in inner : \A k \in inner : i <= k,
                    CHOOSE j \in inner : \A k \in inner : k <= j)

\* The line is one of the words, whatever the case of its letters.
IsWord(line, words) == Lower(TrimmedOf(line)) \in words

\* C30: interactive_loop ends only after an input that, trimmed and
\* lower-cased, is quit, exit or q; after an empty input, help, a
\* KeyboardInterrupt or an Exception raised while input is read or the agent
\* is streamed (end of input on stdin included) the loop prompts again; and
\* the agent is invoked only for an input that is not empty and is none of
\* quit, exit, q and help.
C30_LoopEndsOnlyOnQuit ==
    /\ [](repl.pc = "ended" =>
            /\ repl.event = "break"
            /\ IsWord(repl.line, QuitWords))
    /\ [](repl.event \in {"empty", "help", "KeyboardInterrupt", "EOFError",
                          "Exception"} => repl.pc = "prompt")
    /\ []((repl.invoked \/ repl.pc = "streaming") =>
            /\ TrimmedOf(repl.line) # <<>>
            /\ ~IsWord(repl.line, QuitWords \cup {HELP}))
    /\ [][(repl.pc = "prompt" /\ repl'.pc = "ended") =>
             IsWord(repl'.line, QuitWords)]_vars
    /\ [][(repl.pc = "prompt" /\ repl'.pc = "prompt") =>
             (\/ repl'.event \in InputExceptions
              \/ TrimmedOf(repl'.line) = <<>>
              \/ IsWord(repl'.line, {HELP}))]_vars

\* The loop has prompted MaxPrompts times and ended on " Quit ", which was
\* trimmed to "Quit" and compared in lower case.
C30_Witness ==
    /\ repl.pc = "ended"
    /\ repl.prompts = MaxPrompts
    /\ repl.line = << " ", "Q", "u", "i", "t", " " >>
    /\ repl.user_input = << "Q", "u", "i", "t" >>
    /\ ~repl.invoked
====
